---- MODULE Spec2Model ----
(***************************************************************************)
(* Verification model of voronoi-rs: the beach line (indexed red-black     *)
(* tree, src/src/beachline.rs), the event queue (indexed binary heap,      *)
(* src/src/eventqueue.rs) and the sweep coordinator (src/src/lib.rs).      *)
(*                                                                         *)
(* Every operation of the Rust code is an operator from a value of the     *)
(* data structure to the value after the call.  A Rust panic (an explicit  *)
(* panic!, a failed assert!, an index with a key the slab does not hold)   *)
(* sets the field `panic` of the structure; a loop or recursion that would *)
(* not end on a corrupted tree sets it to "diverge".  A structure that has *)
(* panicked is never used again: the process has aborted.                  *)
(***************************************************************************)
EXTENDS Integers, Sequences, FiniteSets, TLC

\* Pointer::null() is Pointer(!0); the model writes it -1.
NIL == -1
\* Result of a pointer-valued function whose evaluation panics.
PANICP == -2

RED == "RED"
BLACK == "BLACK"

\* Bounds of the model.
MaxNodes == 6
MaxDeletes == 3
MaxQueue == 4
MaxY == 2
MaxX == 1
MaxSites == 4
MaxCoord == 2
MaxClip == 2
\* Option::None as a returned value.
NONE == 0

\* beach  the BeachLine
\* last   the call of the beach line made last, ndel the calls of delete
\* queue  the EventQueue
\* qlast  the call of the event queue made last
\* unit   the length that the coordinate 1 stands for: "half_epsilon" is
\*        EPSILON / 2, "grid" is 1.0
\* sites, events_by_beach_segment, edges_by_site_pair, halfedges_by_site_pair,
\* dcel   the fields of Voronoi next to `beach` and `events` (here `queue`)
\* pc     where Voronoi::run is: "new" before the call, "loop" between two
\*        events, "done" after it returned, or the message of its panic
VARIABLES beach, last, ndel, queue, qlast, unit, sites,
          events_by_beach_segment, edges_by_site_pair,
          halfedges_by_site_pair, dcel, pc, clipSegment, clipBox,
          clipResult, gotPolygons

(***************************************************************************)
(* Slab<Node<T>>: `nodes` maps the occupied keys to their nodes, `free` is *)
(* the stack of vacant keys (the slab crate reuses the key vacated last),  *)
(* and keys that were never used start at the number of slots.             *)
(***************************************************************************)
BeachLine_new == [nodes |-> << >>, free |-> << >>, root |-> NIL, panic |-> ""]

Live(b, p) == p \in DOMAIN b.nodes

Panic(b, msg) == [b EXCEPT !.panic = msg]

SlabNextKey(b) ==
  IF b.free = << >> THEN Cardinality(DOMAIN b.nodes) ELSE Head(b.free)

SlabInsert(b, node) ==
  LET key == SlabNextKey(b)
  IN [b EXCEPT !.nodes = [k \in DOMAIN b.nodes \cup {key} |->
                            IF k = key THEN node ELSE b.nodes[k]],
               !.free = IF b.free = << >> THEN << >> ELSE Tail(b.free)]

SlabRemove(b, key) ==
  [b EXCEPT !.nodes = [k \in DOMAIN b.nodes \ {key} |-> b.nodes[k]],
            !.free = <<key>> \o b.free]

create_node(value, parent) ==
  [color |-> RED, parent |-> parent, left |-> NIL, right |-> NIL, value |-> value]

\* fn sibling: a pointer, or PANICP when an index panics.
sibling(b, at) ==
  IF ~Live(b, at) THEN PANICP
  ELSE LET p == b.nodes[at].parent
       IN IF p = NIL THEN NIL
          ELSE IF ~Live(b, p) THEN PANICP
          ELSE IF b.nodes[p].right = at THEN b.nodes[p].left ELSE b.nodes[p].right

uncle(b, at) ==
  IF ~Live(b, at) THEN PANICP
  ELSE IF b.nodes[at].parent = NIL THEN NIL
  ELSE sibling(b, b.nodes[at].parent)

has_black_children(b, at) ==
  /\ (b.nodes[at].left = NIL \/ b.nodes[b.nodes[at].left].color = BLACK)
  /\ (b.nodes[at].right = NIL \/ b.nodes[b.nodes[at].right].color = BLACK)

\* has_black_children indexes a key the slab does not hold (|| and && short-circuit).
has_black_children_panics(b, at) ==
  \/ ~Live(b, at)
  \/ (b.nodes[at].left # NIL /\ ~Live(b, b.nodes[at].left))
  \/ /\ (b.nodes[at].left = NIL \/ b.nodes[b.nodes[at].left].color = BLACK)
     /\ b.nodes[at].right # NIL
     /\ ~Live(b, b.nodes[at].right)

\* self[p].f, or PANICP when the index panics.
Get(b, p, f) == IF b.panic = "" /\ Live(b, p) THEN b.nodes[p][f] ELSE PANICP

\* self[p].color = c, panicking when the slab does not hold p.
SetColor(b, p, c) ==
  IF b.panic # "" THEN b
  ELSE IF ~Live(b, p) THEN Panic(b, "index")
  ELSE [b EXCEPT !.nodes[p].color = c]

\* self[p].f = v, panicking when the slab does not hold p or when the
\* evaluation of v panicked.
SetField(b, p, f, v) ==
  IF b.panic # "" THEN b
  ELSE IF ~Live(b, p) \/ v = PANICP THEN Panic(b, "index")
  ELSE [b EXCEPT !.nodes[p][f] = v]

\* if self.root == at { self.root = new_parent; }
rotate_root(b, at, new_parent) ==
  IF b.panic = "" /\ b.root = at THEN [b EXCEPT !.root = new_parent] ELSE b

\* if parent != Pointer::null() { ... }
rotate_parent(b, at, parent, new_parent, near, far) ==
  IF b.panic # "" \/ parent = NIL THEN b
  ELSE IF at = Get(b, parent, far) THEN SetField(b, parent, far, new_parent)
  ELSE SetField(b, parent, near, new_parent)

\* if self[at].right != Pointer::null() { ... }
rotate_child(b, at, near) ==
  IF b.panic # "" \/ b.nodes[at][near] = NIL THEN b
  ELSE SetField(b, b.nodes[at][near], "parent", at)

\* The first four assignments of a rotation.
rotate_links(b, at, parent, new_parent, near, far) ==
  SetField(
    SetField(
      SetField(
        SetField(b, at, near, Get(b, new_parent, far)),
        new_parent, far, at),
      at, "parent", new_parent),
    new_parent, "parent", parent)

\* rotate_left is the rotation with near = "right" and far = "left",
\* rotate_right the one with near = "left" and far = "right".
rotate(b, at, parent, new_parent, near, far) ==
  rotate_root(
    rotate_parent(
      rotate_child(rotate_links(b, at, parent, new_parent, near, far), at, near),
      at, parent, new_parent, near, far),
    at, new_parent)

rotate_left(b, at) ==
  rotate(b, at, Get(b, at, "parent"), Get(b, at, "right"), "right", "left")

rotate_right(b, at) ==
  rotate(b, at, Get(b, at, "parent"), Get(b, at, "left"), "left", "right")

\* Loops and recursions of the tree take at most one step per occupied key
\* on a well-formed tree; a walk that takes more has entered a cycle.
Fuel(b) == Cardinality(DOMAIN b.nodes) + 1

RECURSIVE PredUp(_, _, _, _)
PredUp(b, parent, child, fuel) ==
  IF fuel = 0 \/ ~Live(b, parent) THEN PANICP
  ELSE IF b.nodes[parent].left = child
       THEN IF b.nodes[parent].parent = NIL THEN NIL
            ELSE PredUp(b, b.nodes[parent].parent, parent, fuel - 1)
       ELSE parent

RECURSIVE PredDown(_, _, _)
PredDown(b, child, fuel) ==
  IF fuel = 0 \/ ~Live(b, child) THEN PANICP
  ELSE IF b.nodes[child].right # NIL THEN PredDown(b, b.nodes[child].right, fuel - 1)
       ELSE child

predecessor(b, at) ==
  IF at = NIL THEN NIL
  ELSE IF ~Live(b, at) THEN PANICP
  ELSE IF b.nodes[at].left = NIL
       THEN IF b.nodes[at].parent = NIL THEN NIL
            ELSE PredUp(b, b.nodes[at].parent, at, Fuel(b))
       ELSE PredDown(b, b.nodes[at].left, Fuel(b))

RECURSIVE SuccUp(_, _, _, _)
SuccUp(b, parent, child, fuel) ==
  IF fuel = 0 \/ ~Live(b, parent) THEN PANICP
  ELSE IF b.nodes[parent].right = child
       THEN IF b.nodes[parent].parent = NIL THEN NIL
            ELSE SuccUp(b, b.nodes[parent].parent, parent, fuel - 1)
       ELSE parent

RECURSIVE SuccDown(_, _, _)
SuccDown(b, child, fuel) ==
  IF fuel = 0 \/ ~Live(b, child) THEN PANICP
  ELSE IF b.nodes[child].left # NIL THEN SuccDown(b, b.nodes[child].left, fuel - 1)
       ELSE child

successor(b, at) ==
  IF at = NIL THEN NIL
  ELSE IF ~Live(b, at) THEN PANICP
  ELSE IF b.nodes[at].right = NIL
       THEN IF b.nodes[at].parent = NIL THEN NIL
            ELSE SuccUp(b, b.nodes[at].parent, at, Fuel(b))
       ELSE SuccDown(b, b.nodes[at].right, Fuel(b))

\* swap: "Change references from X to Y", for the node n that took the
\* place of o.
swap_parent(b, n, o) ==
  IF b.panic # "" THEN b
  ELSE IF b.nodes[n].parent = NIL THEN [b EXCEPT !.root = n]
  ELSE IF Get(b, b.nodes[n].parent, "right") = PANICP THEN Panic(b, "index")
  ELSE IF b.nodes[b.nodes[n].parent].right = o
  THEN SetField(b, b.nodes[n].parent, "right", n)
  ELSE SetField(b, b.nodes[n].parent, "left", n)

\* swap: "Replace children's references" for the child f of n.
swap_child(b, n, f) ==
  IF b.panic # "" \/ b.nodes[n][f] = NIL THEN b
  ELSE SetField(b, b.nodes[n][f], "parent", n)

swap_relink(b, n, o) == swap_child(swap_child(swap_parent(b, n, o), n, "left"), n, "right")

\* swap: "Swap pointers", o and n being the nodes read at the start.
swap_fields(b, old, new, o, n) ==
  [b EXCEPT
     !.nodes[old] = [@ EXCEPT
        !.parent = IF n.parent = old THEN new ELSE n.parent,
        !.left = IF n.left = old THEN new ELSE n.left,
        !.right = IF n.right = old THEN new ELSE n.right,
        !.color = n.color],
     !.nodes[new] = [@ EXCEPT
        !.parent = IF o.parent = new THEN old ELSE o.parent,
        !.left = IF o.left = new THEN old ELSE o.left,
        !.right = IF o.right = new THEN old ELSE o.right,
        !.color = o.color]]

swap(b, old, new) ==
  IF b.panic # "" THEN b
  ELSE IF ~Live(b, old) \/ ~Live(b, new) THEN Panic(b, "index")
  ELSE swap_relink(
         swap_relink(swap_fields(b, old, new, b.nodes[old], b.nodes[new]), new, old),
         old, new)

\* insert_repair, "step 2": new_at and its parent after step 1.
insert_repair_step2(b, new_at, parent) ==
  IF b.panic # "" THEN b
  ELSE IF new_at = PANICP \/ parent = PANICP \/ ~Live(b, parent) THEN Panic(b, "index")
  ELSE SetColor(
         SetColor(IF new_at = b.nodes[parent].left
                  THEN rotate_right(b, b.nodes[parent].parent)
                  ELSE rotate_left(b, b.nodes[parent].parent),
                  parent, BLACK),
         b.nodes[parent].parent, RED)

\* new_at = self[at].left (self[at].right) after the rotation of step 1
insert_repair_zig(b, at, f) ==
  insert_repair_step2(b, Get(b, at, f), Get(b, Get(b, at, f), "parent"))

\* insert_repair, "step 1"
insert_repair_step1(b, at, parent, grandparent) ==
  IF ~Live(b, grandparent) THEN Panic(b, "index")
  ELSE IF at = b.nodes[parent].right /\ parent = b.nodes[grandparent].left
  THEN insert_repair_zig(rotate_left(b, parent), at, "left")
  ELSE IF at = b.nodes[parent].left /\ parent = b.nodes[grandparent].right
  THEN insert_repair_zig(rotate_right(b, parent), at, "right")
  ELSE insert_repair_step2(b, at, parent)

RECURSIVE insert_repair(_, _, _)
\* the cases of insert_repair, unc being what uncle(at) returned
insert_repair_cases(b, at, unc, parent, fuel) ==
  IF unc = PANICP THEN Panic(b, "index")
  ELSE IF parent = NIL THEN SetColor(b, at, BLACK)
  ELSE IF b.nodes[parent].color = BLACK THEN b
  ELSE IF unc # NIL /\ ~Live(b, unc) THEN Panic(b, "index")
  ELSE IF unc # NIL /\ b.nodes[unc].color = RED
  THEN insert_repair(
         SetColor(SetColor(SetColor(b, unc, BLACK), parent, BLACK),
                  b.nodes[parent].parent, RED),
         b.nodes[parent].parent, fuel - 1)
  ELSE insert_repair_step1(b, at, parent, b.nodes[parent].parent)

insert_repair(b, at, fuel) ==
  IF b.panic # "" THEN b
  ELSE IF fuel = 0 THEN Panic(b, "diverge")
  ELSE insert_repair_cases(b, at, uncle(b, at), Get(b, at, "parent"), fuel)

\* delete_repair, "Finally, case 6", after the two colors were set
delete_repair_case6_rotate(b, sibling0, parent, is_left) ==
  IF is_left
  THEN rotate_left(SetColor(b, b.nodes[sibling0].right, BLACK), parent)
  ELSE rotate_right(SetColor(b, b.nodes[sibling0].left, BLACK), parent)

delete_repair_case6(b, sibling0, parent, is_left) ==
  IF b.panic # "" THEN b
  ELSE IF sibling0 = PANICP \/ ~Live(b, sibling0) THEN Panic(b, "index")
  ELSE delete_repair_case6_rotate(
         SetColor(SetColor(b, sibling0, b.nodes[parent].color),
                  parent, BLACK),
         sibling0, parent, is_left)

\* the condition of "Case 5"
is_case5(b, sibling0) ==
  /\ b.nodes[sibling0].color = BLACK
  /\ b.nodes[sibling0].left # NIL
  /\ b.nodes[b.nodes[sibling0].left].color = RED
  /\ (b.nodes[sibling0].right = NIL \/ b.nodes[b.nodes[sibling0].right].color = BLACK)

\* that condition indexes a key the slab does not hold
is_case5_panics(b, sibling0) ==
  /\ b.nodes[sibling0].color = BLACK
  /\ b.nodes[sibling0].left # NIL
  /\ \/ ~Live(b, b.nodes[sibling0].left)
     \/ /\ b.nodes[b.nodes[sibling0].left].color = RED
        /\ b.nodes[sibling0].right # NIL
        /\ ~Live(b, b.nodes[sibling0].right)

\* delete_repair, "Case 5" and on
delete_repair_case5(b, at, sibling0, parent, is_left) ==
  IF ~Live(b, sibling0) \/ is_case5_panics(b, sibling0) THEN Panic(b, "index")
  ELSE IF ~is_case5(b, sibling0) THEN delete_repair_case6(b, sibling0, parent, is_left)
  ELSE IF is_left
  THEN delete_repair_case6(
         rotate_right(SetColor(SetColor(b, sibling0, RED),
                               b.nodes[sibling0].left, BLACK), sibling0),
         sibling(rotate_right(SetColor(SetColor(b, sibling0, RED),
                                       b.nodes[sibling0].left, BLACK), sibling0),
                 at),
         parent, is_left)
  ELSE delete_repair_case6(
         rotate_left(SetColor(SetColor(b, sibling0, RED),
                              b.nodes[sibling0].right, BLACK), sibling0),
         sibling(rotate_left(SetColor(SetColor(b, sibling0, RED),
                                      b.nodes[sibling0].right, BLACK), sibling0),
                 at),
         parent, is_left)

\* delete_repair from "Case 4" on, with the sibling, parent and is_left the
\* code holds at that point.
delete_repair_tail(b, at, sibling0, parent, is_left) ==
  IF b.panic # "" THEN b
  ELSE IF sibling0 = PANICP \/ ~Live(b, parent) THEN Panic(b, "index")
  ELSE IF b.nodes[parent].color = RED /\ ~Live(b, sibling0) THEN Panic(b, "index")
  ELSE IF b.nodes[parent].color = RED /\ b.nodes[sibling0].color = BLACK
          /\ has_black_children_panics(b, sibling0) THEN Panic(b, "index")
  ELSE IF b.nodes[parent].color = RED /\ b.nodes[sibling0].color = BLACK
          /\ has_black_children(b, sibling0)
  THEN \* Case 4
       SetColor(SetColor(b, sibling0, RED), parent, BLACK)
  ELSE delete_repair_case5(b, at, sibling0, parent, is_left)

\* delete_repair, "Case 2", after rotate_left: the new sibling and parent
delete_repair_case2(b, at, is_left) ==
  delete_repair_tail(b, at, sibling(b, at), Get(b, at, "parent"), is_left)

RECURSIVE delete_repair(_, _, _)
\* the cases of delete_repair, sibling0 being what sibling(at) returned
delete_repair_cases(b, at, sibling0, parent, fuel) ==
  IF sibling0 = PANICP \/ ~Live(b, parent) THEN Panic(b, "index")
  ELSE IF sibling0 = NIL THEN Panic(b, "Black node has a null sibling")
  ELSE IF ~Live(b, sibling0) THEN Panic(b, "index")
  ELSE IF b.nodes[sibling0].color = RED
  THEN \* Case 2
       delete_repair_case2(
         rotate_left(SetColor(SetColor(b, sibling0, BLACK), parent, RED),
                     parent),
         at, b.nodes[parent].left = at)
  ELSE IF b.nodes[parent].color = BLACK /\ has_black_children_panics(b, sibling0)
  THEN Panic(b, "index")
  ELSE IF b.nodes[parent].color = BLACK /\ has_black_children(b, sibling0)
  THEN \* Case 3
       delete_repair(SetColor(b, sibling0, RED), parent, fuel - 1)
  ELSE delete_repair_tail(b, at, sibling0, parent, b.nodes[parent].left = at)

delete_repair(b, at, fuel) ==
  IF b.panic # "" THEN b
  ELSE IF fuel = 0 THEN Panic(b, "diverge")
  ELSE IF ~Live(b, at) THEN Panic(b, "index")
  ELSE IF b.nodes[at].color # BLACK THEN Panic(b, "assertion failed")
  ELSE IF b.root = at THEN b \* Case 1
  ELSE delete_repair_cases(b, at, sibling(b, at), b.nodes[at].parent, fuel)

\* pub fn init
\* init without the check of the root: the new node replaces the root.
init_replaces_root(b, value) ==
  insert_repair(
    [SlabInsert(b, [color |-> BLACK, parent |-> NIL, left |-> NIL,
                    right |-> NIL, value |-> value])
       EXCEPT !.root = SlabNextKey(b)],
    SlabNextKey(b), Fuel(b) + 1)

init(b, value) ==
  IF b.root # NIL THEN Panic(b, "Tried initializing a non-empty beachline")
  ELSE insert_repair(
         [SlabInsert(b, [color |-> BLACK, parent |-> NIL, left |-> NIL,
                         right |-> NIL, value |-> value])
            EXCEPT !.root = SlabNextKey(b)],
         SlabNextKey(b), Fuel(b) + 1)

\* pub fn get: the value, or NONE when the index panics.
get(b, at) == IF Live(b, at) THEN b.nodes[at].value ELSE NONE

\* insert_after and insert_before return [b |-> the tree, ret |-> the pointer]:
\* the pointer is self[at].right (self[at].left) as read after insert_repair.
inserted_right(b, at) ==
  IF b.panic # "" THEN [b |-> b, ret |-> PANICP] ELSE [b |-> b, ret |-> b.nodes[at].right]

inserted_left(b, at) ==
  IF b.panic # "" THEN [b |-> b, ret |-> PANICP] ELSE [b |-> b, ret |-> b.nodes[at].left]

\* self[at].right = Pointer(self.nodes.insert(create_node(value, at)))
link_right(b, at, value, key) ==
  [SlabInsert(b, create_node(value, at)) EXCEPT !.nodes[at].right = key]

link_left(b, at, value, key) ==
  [SlabInsert(b, create_node(value, at)) EXCEPT !.nodes[at].left = key]

RECURSIVE insert_after(_, _, _, _)
RECURSIVE insert_before(_, _, _, _)
insert_after(b, at, value, fuel) ==
  IF b.panic # "" THEN [b |-> b, ret |-> PANICP]
  ELSE IF fuel = 0 THEN [b |-> Panic(b, "diverge"), ret |-> PANICP]
  ELSE IF ~Live(b, at) THEN [b |-> Panic(b, "index"), ret |-> PANICP]
  ELSE IF b.nodes[at].right = NIL
  THEN inserted_right(insert_repair(link_right(b, at, value, SlabNextKey(b)),
                                    SlabNextKey(b), Fuel(b) + 1), at)
  ELSE LET succ == successor(b, at)
       IN IF succ = PANICP THEN [b |-> Panic(b, "index"), ret |-> PANICP]
          ELSE insert_before(b, succ, value, fuel - 1)

insert_before(b, at, value, fuel) ==
  IF b.panic # "" THEN [b |-> b, ret |-> PANICP]
  ELSE IF fuel = 0 THEN [b |-> Panic(b, "diverge"), ret |-> PANICP]
  ELSE IF ~Live(b, at) THEN [b |-> Panic(b, "index"), ret |-> PANICP]
  ELSE IF b.nodes[at].left = NIL
  THEN inserted_left(insert_repair(link_left(b, at, value, SlabNextKey(b)),
                                   SlabNextKey(b), Fuel(b) + 1), at)
  ELSE LET pred == predecessor(b, at)
       IN IF pred = PANICP THEN [b |-> Panic(b, "index"), ret |-> PANICP]
          ELSE insert_after(b, pred, value, fuel - 1)

\* pub fn delete returns [b |-> the tree, ret |-> the value or NONE].
\* delete of a node without children, after the repair left the tree b.
delete_leaf(b, at, parent) ==
  IF b.panic # "" THEN [b |-> b, ret |-> NONE]
  ELSE [b |-> SlabRemove(IF b.nodes[parent].left = at
                         THEN SetField(b, parent, "left", NIL)
                         ELSE SetField(b, parent, "right", NIL), at),
        ret |-> b.nodes[at].value]

\* delete of a node with exactly one child, after the child and the parent
\* were linked: b still holds the node, at.
delete_single(b, at, child) ==
  IF b.nodes[at].color = RED
  THEN [b |-> SlabRemove(b, at), ret |-> b.nodes[at].value]
  ELSE IF child = at THEN [b |-> Panic(SlabRemove(b, at), "index"), ret |-> NONE]
  ELSE IF b.nodes[child].color = RED
  THEN [b |-> SetColor(SlabRemove(b, at), child, BLACK),
        ret |-> b.nodes[at].value]
  ELSE [b |-> Panic(SlabRemove(b, at),
                    "Impossible case: deleting black node with one black child"),
        ret |-> NONE]

\* the links of the one-child case
delete_relink(b, at, child, parent) ==
  IF b.panic # "" THEN [b |-> b, ret |-> NONE]
  ELSE IF parent = NIL THEN delete_single([b EXCEPT !.root = child], at, child)
  ELSE IF ~Live(b, parent) THEN [b |-> Panic(b, "index"), ret |-> NONE]
  ELSE IF b.nodes[parent].left = at
  THEN delete_single(SetField(b, parent, "left", child), at, child)
  ELSE delete_single(SetField(b, parent, "right", child), at, child)

RECURSIVE delete(_, _, _)
delete(b, at, fuel) ==
  IF b.panic # "" THEN [b |-> b, ret |-> NONE]
  ELSE IF at = NIL THEN [b |-> b, ret |-> NONE]
  ELSE IF fuel = 0 THEN [b |-> Panic(b, "diverge"), ret |-> NONE]
  ELSE IF ~Live(b, at) THEN [b |-> Panic(b, "index"), ret |-> NONE]
  ELSE IF b.nodes[at].left # NIL /\ b.nodes[at].right # NIL
  THEN \* Node has two children
       LET pred == predecessor(b, at)
       IN IF pred = PANICP THEN [b |-> Panic(b, "index"), ret |-> NONE]
          ELSE delete(swap(b, pred, at), at, fuel - 1)
  ELSE IF b.nodes[at].left = NIL /\ b.nodes[at].right = NIL
  THEN \* Node has no children
       LET parent == b.nodes[at].parent
       IN IF parent = NIL
          THEN [b |-> SlabRemove([b EXCEPT !.root = NIL], at), ret |-> b.nodes[at].value]
          ELSE IF ~Live(b, parent) THEN [b |-> Panic(b, "index"), ret |-> NONE]
          ELSE IF b.nodes[parent].color = BLACK /\ b.nodes[at].color = BLACK
          THEN delete_leaf(delete_repair(b, at, Fuel(b)), at, parent)
          ELSE delete_leaf(b, at, parent)
  ELSE \* Node has exactly one child
       LET child == IF b.nodes[at].left = NIL THEN b.nodes[at].right ELSE b.nodes[at].left
       IN delete_relink(SetField(b, child, "parent", b.nodes[at].parent), at, child,
                        b.nodes[at].parent)

\* pub fn in_order, as the sequence of pointers visited (the callback gets
\* their values); PANICP marks a subtree whose visit panics or does not end.
RECURSIVE in_order_at(_, _, _)
in_order_at(b, at, fuel) ==
  IF at = NIL THEN << >>
  ELSE IF fuel = 0 \/ ~Live(b, at) THEN <<PANICP>>
  ELSE in_order_at(b, b.nodes[at].left, fuel - 1) \o <<at>>
         \o in_order_at(b, b.nodes[at].right, fuel - 1)

in_order(b) == in_order_at(b, b.root, Fuel(b))

(***************************************************************************)
(* Event queue (src/src/eventqueue.rs).  `events` is the Slab<Event>,      *)
(* `heap` the Vec<Pointer> (heap index i is heap[i + 1] here) and `index`  *)
(* the HashMap heap_indices_by_events.                                     *)
(*                                                                         *)
(* Coordinates are whole multiples of half the tolerance EPSILON of        *)
(* math_helpers.rs, so that two different coordinates can be closer than   *)
(* EPSILON, exactly EPSILON apart, or farther.                             *)
(***************************************************************************)
EPSILON == 2

(***************************************************************************)
(* An f64 is modelled by the exact value (a + b * sqrt(r)) / d with whole  *)
(* a, b, r >= 0 and d > 0, which is closed under what the program computes *)
(* from whole coordinates; d = 0 is NaN.  Rounding is not modelled.  Under *)
(* the unit "grid" two different values that the program computes from     *)
(* coordinates in 0 .. MaxCoord are much farther apart than EPSILON, so    *)
(* |a - b| < EPSILON is a = b there.                                       *)
(***************************************************************************)
Abs(a) == IF a < 0 THEN -a ELSE a

Sign(a) == IF a < 0 THEN -1 ELSE IF a > 0 THEN 1 ELSE 0

RECURSIVE GCD(_, _)
GCD(a, b) == IF b = 0 THEN Abs(a) ELSE GCD(b, a % Abs(b))

\* Sign of a / c - d / b for positive a, c, d, b, without the products.
RECURSIVE CmpFrac(_, _, _, _)
CmpFrac(a, c, d, b) ==
  LET q1 == a \div c
      q2 == d \div b
      r1 == a % c
      r2 == d % b
  IN IF q1 # q2 THEN Sign(q1 - q2)
     ELSE IF r1 = 0 /\ r2 = 0 THEN 0
     ELSE IF r1 = 0 THEN -1
     ELSE IF r2 = 0 THEN 1
     ELSE -CmpFrac(c, r1, b, r2)

\* Sign of a * b - c * d for a, b, c, d >= 0.
CmpProd(a, b, c, d) ==
  IF a = 0 \/ b = 0 THEN (IF c = 0 \/ d = 0 THEN 0 ELSE -1)
  ELSE IF c = 0 \/ d = 0 THEN 1
  ELSE CmpFrac(a, c, d, b)

\* Sign of k + s1 * sqrt(q1) + s2 * sqrt(q2) for signs s1, s2 and q1, q2 >= 0.
SignSurd(k, s1, q1, s2, q2) ==
  LET t1 == IF q1 = 0 THEN 0 ELSE s1
      t2 == IF q2 = 0 THEN 0 ELSE s2
      p1 == IF t1 = 0 THEN 0 ELSE q1
      p2 == IF t2 = 0 THEN 0 ELSE q2
      sx == IF t1 >= 0 /\ t2 >= 0 THEN (IF t1 = 0 /\ t2 = 0 THEN 0 ELSE 1)
            ELSE IF t1 <= 0 /\ t2 <= 0 THEN -1
            ELSE t1 * Sign(p1 - p2)
      m == p1 + p2 - k * k
      c == t1 * t2
      \* sign of |s1 sqrt(p1) + s2 sqrt(p2)|^2 - k^2 = m + 2 c sqrt(p1 p2)
      sabs == IF c = 0 THEN Sign(m)
              ELSE IF c = 1
              THEN (IF m >= 0 THEN 1 ELSE CmpProd(4 * p1, p2, -m, -m))
              ELSE (IF m <= 0 THEN -1 ELSE CmpProd(m, m, 4 * p1, p2))
  IN IF sx = 0 THEN Sign(k)
     ELSE IF k = 0 \/ Sign(k) = sx THEN sx
     ELSE sx * sabs

Num(a, b, r, d) ==
  LET g == GCD(GCD(a, b), d)
  IN IF b = 0 \/ r = 0 THEN [a |-> a \div g, b |-> 0, r |-> 0, d |-> d \div g]
     ELSE [a |-> a \div g, b |-> b \div g, r |-> r, d |-> d \div g]

NumInt(n) == [a |-> n, b |-> 0, r |-> 0, d |-> 1]

NaN == [a |-> 0, b |-> 0, r |-> 0, d |-> 0]

\* Sign of p - q.
NumCmp(p, q) ==
  SignSurd(p.a * q.d - q.a * p.d,
           Sign(p.b), p.b * p.b * q.d * q.d * p.r,
           -Sign(q.b), q.b * q.b * p.d * p.d * q.r)

\* The operators < and > of f64: false when an operand is NaN.
FLess(p, q) == p.d # 0 /\ q.d # 0 /\ NumCmp(p, q) < 0

\* p + q and p - q, for p and q whose square roots are of the same number.
NumAdd(p, q) ==
  Num(p.a * q.d + q.a * p.d, p.b * q.d + q.b * p.d,
      IF p.b # 0 THEN p.r ELSE q.r, p.d * q.d)

NumSub(p, q) == NumAdd(p, [q EXCEPT !.a = -q.a, !.b = -q.b])

equals_with_epsilon(a, b) ==
  IF unit = "grid" THEN NumCmp(a, b) = 0
  ELSE /\ FLess(a, NumAdd(b, NumInt(EPSILON)))
       /\ FLess(b, NumAdd(a, NumInt(EPSILON)))

\* impl Ord for Event: "Less", "Equal" or "Greater".
cmp(self, other) ==
  IF equals_with_epsilon(self.y, other.y)
  THEN IF equals_with_epsilon(self.x, other.x) THEN "Equal"
       ELSE IF FLess(self.x, other.x) THEN "Less" ELSE "Greater"
  ELSE IF FLess(self.y, other.y) THEN "Less" ELSE "Greater"

\* self[a] < self[b] of the derived PartialOrd.
EventLess(a, b) == cmp(a, b) = "Less"

EventQueue_new == [events |-> << >>, free |-> << >>, heap |-> << >>, index |-> << >>]

\* Number of the heap slot holding NULL: left, right and parent return it
\* for a slot that does not exist.
NULLIDX == -1

EQ_len(q) == Len(q.heap)

EQ_left(q, i) ==
  IF i = NULLIDX THEN NULLIDX
  ELSE IF Len(q.heap) > 2 * i + 1 THEN 2 * i + 1 ELSE NULLIDX

EQ_right(q, i) ==
  IF i = NULLIDX THEN NULLIDX
  ELSE IF Len(q.heap) > 2 * i + 2 THEN 2 * i + 2 ELSE NULLIDX

EQ_parent(q, i) ==
  IF i = NULLIDX \/ i = 0 THEN NULLIDX ELSE (i - 1) \div 2

\* self[self.heap[i]]
EventAt(q, i) == q.events[q.heap[i + 1]]

MapPut(m, k, v) == [x \in DOMAIN m \cup {k} |-> IF x = k THEN v ELSE m[x]]
MapRemove(m, k) == [x \in DOMAIN m \ {k} |-> m[x]]

\* A swap that exchanges the two heap slots and forgets the index map.
EQ_swap_heap_only(q, i, j) ==
  [q EXCEPT !.heap = [q.heap EXCEPT ![i + 1] = q.heap[j + 1], ![j + 1] = q.heap[i + 1]]]

EQ_swap(q, i, j) ==
  LET temp == q.heap[i + 1]
      m1 == MapPut(q.index, q.heap[i + 1], j)
      m2 == MapPut(m1, q.heap[j + 1], i)
      h1 == [q.heap EXCEPT ![i + 1] = q.heap[j + 1]]
      h2 == [h1 EXCEPT ![j + 1] = temp]
  IN [q EXCEPT !.index = m2, !.heap = h2]

RECURSIVE heapify_up(_, _)
heapify_up(q, at) ==
  LET parent == EQ_parent(q, at)
  IN IF parent # NULLIDX /\ EventLess(EventAt(q, at), EventAt(q, parent))
     THEN heapify_up(EQ_swap(q, at, parent), parent)
     ELSE q

RECURSIVE heapify_down(_, _)
heapify_down(q, at) ==
  LET left == EQ_left(q, at)
      right == EQ_right(q, at)
      s1 == IF left # NULLIDX /\ EventLess(EventAt(q, left), EventAt(q, at))
            THEN left ELSE at
      smallest == IF right # NULLIDX /\ EventLess(EventAt(q, right), EventAt(q, s1))
                  THEN right ELSE s1
  IN IF smallest # at THEN heapify_down(EQ_swap(q, smallest, at), smallest) ELSE q

EQ_NextKey(q) ==
  IF q.free = << >> THEN Cardinality(DOMAIN q.events) ELSE Head(q.free)

\* insert returns [q |-> the queue, ret |-> the EventHandle].
EQ_insert(q, event) ==
  LET ptr == EQ_NextKey(q)
      q1 == [q EXCEPT !.events = MapPut(q.events, ptr, event),
                      !.free = IF q.free = << >> THEN << >> ELSE Tail(q.free)]
      q2 == [q1 EXCEPT !.heap = Append(q1.heap, ptr)]
      q3 == [q2 EXCEPT !.index = MapPut(q2.index, ptr, Len(q2.heap) - 1)]
  IN [q |-> heapify_up(q3, Len(q3.heap) - 1), ret |-> ptr]

\* self.events.remove(ptr.0); self.heap_indices_by_events.remove(&ptr);
\* self.heap.pop().unwrap()
EQ_drop_last(q, ptr) ==
  [q EXCEPT !.events = MapRemove(q.events, ptr),
            !.free = <<ptr>> \o q.free,
            !.index = MapRemove(q.index, ptr),
            !.heap = SubSeq(q.heap, 1, Len(q.heap) - 1)]

NoEvent ==
  [kind |-> "None", x |-> NumInt(0), y |-> NumInt(0), id |-> NIL, arc |-> NIL,
   rad |-> NumInt(0)]

\* Event::Site(Site { x, y, id })
SiteEvent(x, y, id) ==
  [kind |-> "Site", x |-> x, y |-> y, id |-> id, arc |-> NIL, rad |-> NumInt(0)]

\* Event::Vertex(arc, x, y, rad)
VertexEvent(arc, x, y, rad) ==
  [kind |-> "Vertex", x |-> x, y |-> y, id |-> NIL, arc |-> arc, rad |-> rad]

\* pop returns [q |-> the queue, ret |-> the event or NoEvent].
EQ_pop(q) ==
  IF Len(q.heap) < 1 THEN [q |-> q, ret |-> NoEvent]
  ELSE
    LET ptr == q.heap[1]
        last_ == Len(q.heap) - 1
        q1 == EQ_swap(q, 0, last_)
        q2 == EQ_drop_last(q1, ptr)
    IN [q |-> IF Len(q2.heap) > 0 THEN heapify_down(q2, 0) ELSE q2,
        ret |-> q.events[ptr]]

\* A delete that takes the handle out of the heap and the index map and
\* leaves its event in the arena.
EQ_delete_keeps_event(q, handle) ==
  IF handle \notin DOMAIN q.index THEN [q |-> q, ret |-> NoEvent]
  ELSE
    LET idx == q.index[handle]
        last_ == Len(q.heap) - 1
        q1 == EQ_swap(q, idx, last_)
        q2 == [q1 EXCEPT !.index = MapRemove(q1.index, handle),
                         !.heap = SubSeq(q1.heap, 1, Len(q1.heap) - 1)]
    IN [q |-> IF Len(q2.heap) > idx THEN heapify_up(heapify_down(q2, idx), idx) ELSE q2,
        ret |-> q.events[handle]]

\* delete returns [q |-> the queue, ret |-> the event or NoEvent].
EQ_delete(q, handle) ==
  IF handle \notin DOMAIN q.index THEN [q |-> q, ret |-> NoEvent]
  ELSE
    LET idx == q.index[handle]
        last_ == Len(q.heap) - 1
        q1 == EQ_swap(q, idx, last_)
        q2 == EQ_drop_last(q1, handle)
    IN [q |-> IF Len(q2.heap) > idx THEN heapify_up(heapify_down(q2, idx), idx) ELSE q2,
        ret |-> q.events[handle]]

(***************************************************************************)
(* Geometry kernel (src/src/math_helpers.rs).  The coordinates of sites    *)
(* are whole numbers of units.                                             *)
(***************************************************************************)
breakpoint_between(x1, y1, x2, y2, directrix) ==
  IF equals_with_epsilon(NumInt(y1), NumInt(y2)) THEN Num(x1 + x2, 0, 0, 2)
  ELSE
    LET s == directrix
        radicand == (s * s - s * y1 - s * y2 + y1 * y2)
                      * (x1 * x1 - 2 * x1 * x2 + x2 * x2 + y1 * y1 - 2 * y1 * y2 + y2 * y2)
        rest == s * x1 - s * x2 - x1 * y2 + x2 * y1
        den == y1 - y2
    IN IF radicand < 0 THEN NaN
       ELSE IF den > 0 THEN Num(rest, 1, radicand, den)
       ELSE Num(-rest, -1, radicand, -den)

NoCenter == [some |-> FALSE, cx |-> NaN, cy |-> NaN, rad |-> NaN]

\* det is a whole number of squared units: under "half_epsilon" it is less
\* than EPSILON for every coordinate below 2 * 10^6 units.
find_center(x1, y1, x2, y2, x3, y3) ==
  LET temp == x2 * x2 + y2 * y2
      bc2 == x1 * x1 + y1 * y1 - temp
      cd2 == temp - x3 * x3 - y3 * y3
      det == (x1 - x2) * (y2 - y3) - (x2 - x3) * (y1 - y2)
  IN IF unit # "grid" \/ det = 0 THEN NoCenter
     ELSE
       LET d == 2 * Abs(det)
           nx == Sign(det) * (bc2 * (y2 - y3) - cd2 * (y1 - y2))
           ny == Sign(det) * ((x1 - x2) * cd2 - (x2 - x3) * bc2)
           dx == nx - d * x1
           dy == ny - d * y1
       IN [some |-> TRUE, cx |-> Num(nx, 0, 0, d), cy |-> Num(ny, 0, 0, d),
           rad |-> Num(0, 1, dx * dx + dy * dy, d)]

\* p * q and p / q of numbers without square roots; NaN stays NaN. The
\* divisors of the code are tested with equals_with_epsilon first.
NumMul(p, q) == IF p.d = 0 \/ q.d = 0 THEN NaN ELSE Num(p.a * q.a, 0, 0, p.d * q.d)

NumDiv(p, q) ==
  IF p.d = 0 \/ q.d = 0 \/ q.a = 0 THEN NaN
  ELSE Num(Sign(q.a) * p.a * q.d, 0, 0, Abs(q.a) * p.d)

\* std::f64::MAX: above every quotient of the bounded inputs.
FMAX == [a |-> 1000000, b |-> 0, r |-> 0, d |-> 1]

Zero == NumInt(0)

(***************************************************************************)
(* The segment clipper of src/src/dcel.rs: BoundingBox, LineSegment,       *)
(* is_inside, BoundResult, BoundSide, corners_between and bound.           *)
(***************************************************************************)
BoundingBox_new(min_x, min_y, max_x, max_y) == [min_x |-> min_x, min_y |-> min_y, max_x |-> max_x, max_y |-> max_y]

LineSegment(start_x, start_y, end_x, end_y) == [start_x |-> start_x, start_y |-> start_y, end_x |-> end_x, end_y |-> end_y]

is_inside(x, y, bbox) ==
  IF FLess(x, bbox.min_x) \/ FLess(bbox.max_x, x) \/ FLess(y, bbox.min_y) \/ FLess(bbox.max_y, y)
  THEN FALSE
  ELSE TRUE

Inside == [kind |-> "Inside", x |-> NaN, y |-> NaN, side |-> ""]
Outside == [kind |-> "Outside", x |-> NaN, y |-> NaN, side |-> ""]
Intersect(x, y, side) == [kind |-> "Intersect", x |-> x, y |-> y, side |-> side]

\* corners_between with the row (Top, Right) going across the rectangle from
\* top_left to bottom_right.
corners_between_skips_corner(side1, side2, bbox) ==
  LET bottom_left == <<bbox.min_x, bbox.min_y>>
      bottom_right == <<bbox.max_x, bbox.min_y>>
      top_right == <<bbox.max_x, bbox.max_y>>
      top_left == <<bbox.min_x, bbox.max_y>>
  IN CASE side1 = "Top" /\ side2 = "Left" -> <<top_left>>
       [] side1 = "Top" /\ side2 = "Bottom" -> <<top_left, bottom_left>>
       [] side1 = "Top" /\ side2 = "Right" -> <<top_left, bottom_right>>
       [] side1 = "Left" /\ side2 = "Bottom" -> <<bottom_left>>
       [] side1 = "Left" /\ side2 = "Right" -> <<bottom_left, bottom_right>>
       [] side1 = "Left" /\ side2 = "Top" -> <<bottom_left, bottom_right, top_right>>
       [] side1 = "Bottom" /\ side2 = "Right" -> <<bottom_right>>
       [] side1 = "Bottom" /\ side2 = "Top" -> <<bottom_right, top_right>>
       [] side1 = "Bottom" /\ side2 = "Left" -> <<bottom_right, top_right, top_left>>
       [] side1 = "Right" /\ side2 = "Top" -> <<top_right>>
       [] side1 = "Right" /\ side2 = "Left" -> <<top_right, top_left>>
       [] side1 = "Right" /\ side2 = "Bottom" -> <<top_right, top_left, bottom_left>>
       [] OTHER -> << >>

corners_between(side1, side2, bbox) ==
  LET bottom_left == <<bbox.min_x, bbox.min_y>>
      bottom_right == <<bbox.max_x, bbox.min_y>>
      top_right == <<bbox.max_x, bbox.max_y>>
      top_left == <<bbox.min_x, bbox.max_y>>
  IN CASE side1 = "Top" /\ side2 = "Left" -> <<top_left>>
       [] side1 = "Top" /\ side2 = "Bottom" -> <<top_left, bottom_left>>
       [] side1 = "Top" /\ side2 = "Right" -> <<top_left, bottom_left, bottom_right>>
       [] side1 = "Left" /\ side2 = "Bottom" -> <<bottom_left>>
       [] side1 = "Left" /\ side2 = "Right" -> <<bottom_left, bottom_right>>
       [] side1 = "Left" /\ side2 = "Top" -> <<bottom_left, bottom_right, top_right>>
       [] side1 = "Bottom" /\ side2 = "Right" -> <<bottom_right>>
       [] side1 = "Bottom" /\ side2 = "Top" -> <<bottom_right, top_right>>
       [] side1 = "Bottom" /\ side2 = "Left" -> <<bottom_right, top_right, top_left>>
       [] side1 = "Right" /\ side2 = "Top" -> <<top_right>>
       [] side1 = "Right" /\ side2 = "Left" -> <<top_right, top_left>>
       [] side1 = "Right" /\ side2 = "Bottom" -> <<top_right, top_left, bottom_left>>
       [] OTHER -> << >>

\* let side = ... of Cases 3 and 4
bound_side(dx, dy, tx, ty) ==
  IF FLess(dx, Zero) /\ FLess(dy, Zero)
  THEN (IF FLess(tx, ty) THEN "Left" ELSE "Bottom")
  ELSE IF FLess(dx, Zero) /\ FLess(Zero, dy)
  THEN (IF FLess(tx, ty) THEN "Left" ELSE "Top")
  ELSE IF FLess(Zero, dx) /\ FLess(Zero, dy)
  THEN (IF FLess(tx, ty) THEN "Right" ELSE "Top")
  ELSE (IF FLess(tx, ty) THEN "Right" ELSE "Bottom")

\* let tx = ... and let ty = ...: the parameter at which the line from
\* start reaches test, d being the difference of the coordinate.
bound_t(test, start, d) == IF equals_with_epsilon(d, Zero) THEN FMAX ELSE NumDiv(NumSub(test, start), d)

\* The point and the side, for the parameters tx and ty.
bound_point(x, y, dx, dy, tx, ty) == Intersect(NumAdd(x, NumMul(dx, IF FLess(tx, ty) THEN tx ELSE ty)), NumAdd(y, NumMul(dy, IF FLess(tx, ty) THEN tx ELSE ty)), bound_side(dx, dy, tx, ty))

\* Case 3 from (x, y) inside with the differences dx and dy to the point
\* outside; Case 4 is Case 3 from the end of the segment.
bound_from(x, y, dx, dy, bbox) == bound_point(x, y, dx, dy, bound_t(IF FLess(dx, Zero) THEN bbox.min_x ELSE bbox.max_x, x, dx), bound_t(IF FLess(dy, Zero) THEN bbox.min_y ELSE bbox.max_y, y, dy))

\* bound without Case 4: a segment that enters is reported as Outside.
bound_leaving_only(segment, bbox) ==
  IF /\ is_inside(segment.start_x, segment.start_y, bbox)
     /\ is_inside(segment.end_x, segment.end_y, bbox) THEN Inside
  ELSE IF is_inside(segment.start_x, segment.start_y, bbox)
  THEN bound_from(segment.start_x, segment.start_y, NumSub(segment.end_x, segment.start_x), NumSub(segment.end_y, segment.start_y), bbox)
  ELSE Outside

\* fn bound(segment: LineSegment, bbox: &BoundingBox) -> BoundResult
bound(segment, bbox) ==
  IF /\ is_inside(segment.start_x, segment.start_y, bbox)
     /\ is_inside(segment.end_x, segment.end_y, bbox) THEN Inside
  ELSE IF /\ ~is_inside(segment.start_x, segment.start_y, bbox)
          /\ ~is_inside(segment.end_x, segment.end_y, bbox) THEN Outside
  ELSE IF is_inside(segment.start_x, segment.start_y, bbox)
  THEN bound_from(segment.start_x, segment.start_y, NumSub(segment.end_x, segment.start_x), NumSub(segment.end_y, segment.start_y), bbox)
  ELSE bound_from(segment.end_x, segment.end_y, NumSub(segment.start_x, segment.end_x), NumSub(segment.start_y, segment.end_y), bbox)

(***************************************************************************)
(* Dcel (src/src/dcel.rs): vertices, halfedges and faces are the Vecs, so  *)
(* index i of the code is element i + 1 here.                              *)
(***************************************************************************)
HalfEdge_new == [origin |-> NIL, next |-> NIL, twin |-> NIL, active |-> TRUE]

\* A Dcel::new whose face table has one slot too many.
Dcel_new_one_more(face_count) ==
  [vertices |-> << >>, halfedges |-> << >>, faces |-> [i \in 1 .. face_count + 1 |-> NIL]]

Dcel_new(face_count) ==
  [vertices |-> << >>, halfedges |-> << >>, faces |-> [i \in 1 .. face_count |-> NIL]]

\* An ensure_face that overwrites a slot that is set.
ensure_face_overwrites(d, face_id, halfedge) ==
  [d EXCEPT !.faces[face_id + 1] = halfedge]

ensure_face(d, face_id, halfedge) ==
  IF d.faces[face_id + 1] = NIL THEN [d EXCEPT !.faces[face_id + 1] = halfedge] ELSE d

\* create_twins without twin.twin = index: the second half-edge has no twin.
create_twins_one_way(d) ==
  [d |-> [d EXCEPT !.halfedges = @ \o <<[HalfEdge_new EXCEPT !.twin = Len(d.halfedges) + 1], HalfEdge_new>>],
   edge |-> Len(d.halfedges), twin |-> Len(d.halfedges) + 1]

\* returns [d |-> the Dcel, edge |-> index, twin |-> twin_index]
create_twins(d) ==
  LET index == Len(d.halfedges)
      twin_index == index + 1
      edge == [HalfEdge_new EXCEPT !.twin = twin_index]
      twin == [HalfEdge_new EXCEPT !.twin = index]
  IN [d |-> [d EXCEPT !.halfedges = @ \o <<edge, twin>>],
      edge |-> index, twin |-> twin_index]

\* create_vertex storing the coordinates the wrong way round.
create_vertex_swapped(d, x, y) ==
  [d |-> [d EXCEPT !.vertices = Append(@, [x |-> y, y |-> x])],
   ret |-> Len(d.vertices)]

\* A create_vertex that pushes the vertex twice and returns the second index.
create_vertex_twice(d, x, y) ==
  [d |-> [d EXCEPT !.vertices = Append(Append(@, [x |-> x, y |-> y]), [x |-> x, y |-> y])],
   ret |-> Len(d.vertices) + 1]

\* returns [d |-> the Dcel, ret |-> index]
create_vertex(d, x, y) ==
  [d |-> [d EXCEPT !.vertices = Append(@, [x |-> x, y |-> y])],
   ret |-> Len(d.vertices)]

\* The loop of get_polygons for one face, at edge with the polygon so far:
\* [edge, polygon, panic]. A walk that has pushed more vertices than there
\* are half-edges is in a cycle without the face's edge and never ends.
RECURSIVE polygon_walk(_, _, _, _, _)
polygon_walk(d, face, edge, polygon, fuel) ==
  IF edge = NIL THEN [edge |-> edge, polygon |-> polygon, panic |-> ""]
  ELSE IF edge + 1 \notin DOMAIN d.halfedges
  THEN [edge |-> edge, polygon |-> polygon, panic |-> "index"]
  ELSE IF d.halfedges[edge + 1].origin = NIL
  THEN [edge |-> edge, polygon |-> polygon, panic |-> ""]
  ELSE IF d.halfedges[edge + 1].origin + 1 \notin DOMAIN d.vertices
  THEN [edge |-> edge, polygon |-> polygon, panic |-> "index"]
  ELSE IF fuel = 0 THEN [edge |-> edge, polygon |-> polygon, panic |-> "diverge"]
  ELSE IF d.halfedges[edge + 1].next = face
  THEN [edge |-> face, polygon |-> Append(polygon, d.vertices[d.halfedges[edge + 1].origin + 1]), panic |-> ""]
  ELSE polygon_walk(d, face, d.halfedges[edge + 1].next, Append(polygon, d.vertices[d.halfedges[edge + 1].origin + 1]), fuel - 1)

\* get_polygons pushing the partial polygon of a walk that did not return.
polygon_of_partial(face, walk) == walk.polygon

\* What get_polygons pushes for one face, given the end of its walk.
polygon_of(face, walk) == IF walk.edge = face THEN walk.polygon ELSE << >>

\* pub fn get_polygons: [panic, polygons]; a vertex is [x, y].
get_polygons(d) ==
  LET walks == [i \in 1 .. Len(d.faces) |-> polygon_walk(d, d.faces[i], d.faces[i], << >>, Len(d.halfedges))]
      bad == {i \in 1 .. Len(d.faces) : walks[i].panic # ""}
  IN IF bad # {}
     THEN [panic |-> walks[CHOOSE i \in bad : \A j \in bad : i <= j].panic, polygons |-> << >>]
     ELSE [panic |-> "", polygons |-> [i \in 1 .. Len(d.faces) |-> polygon_of(d.faces[i], walks[i])]]

get_twin(d, halfedge) == d.halfedges[halfedge + 1].twin

set_origin(d, halfedge, origin) == [d EXCEPT !.halfedges[halfedge + 1].origin = origin]

set_next(d, halfedge, next) == [d EXCEPT !.halfedges[halfedge + 1].next = next]

(***************************************************************************)
(* Dcel::bound (src/src/dcel.rs:126-330). The steps for one face return    *)
(* [d, remove, panic]: the Dcel, should_remove_face and the panic or "".   *)
(***************************************************************************)
set_active(d, halfedge, active) == [d EXCEPT !.halfedges[halfedge + 1].active = active]

\* self.halfedges[to].origin = self.halfedges[from].origin
copy_origin(d, to, from) == set_origin(d, to, d.halfedges[from + 1].origin)

BoundDone(d, remove, panic) == [d |-> d, remove |-> remove, panic |-> panic]

\* The loop that looks for a starting edge: [edge, remove, panic].
RECURSIVE bound_starting_edge(_, _, _, _, _)
bound_starting_edge(d, face, starting_edge, bbox, fuel) ==
  IF starting_edge + 1 \notin DOMAIN d.halfedges
  THEN [edge |-> starting_edge, remove |-> FALSE, panic |-> "index"]
  ELSE IF d.halfedges[starting_edge + 1].origin = NIL
  THEN [edge |-> starting_edge, remove |-> TRUE, panic |-> ""]
  ELSE IF d.halfedges[starting_edge + 1].origin + 1 \notin DOMAIN d.vertices
  THEN [edge |-> starting_edge, remove |-> FALSE, panic |-> "index"]
  ELSE IF is_inside(d.vertices[d.halfedges[starting_edge + 1].origin + 1].x, d.vertices[d.halfedges[starting_edge + 1].origin + 1].y, bbox)
  THEN [edge |-> starting_edge, remove |-> FALSE, panic |-> ""]
  ELSE IF d.halfedges[starting_edge + 1].next = face \/ d.halfedges[starting_edge + 1].next = NIL
  THEN [edge |-> d.halfedges[starting_edge + 1].next, remove |-> TRUE, panic |-> ""]
  ELSE IF fuel = 0 THEN [edge |-> starting_edge, remove |-> FALSE, panic |-> "diverge"]
  ELSE bound_starting_edge(d, face, d.halfedges[starting_edge + 1].next, bbox, fuel - 1)

\* The side read from the coordinates of a vertex on the rectangle.
side_of_vertex(x, y, bbox) ==
  IF equals_with_epsilon(x, bbox.max_x) THEN "Right"
  ELSE IF equals_with_epsilon(x, bbox.min_x) THEN "Left"
  ELSE IF equals_with_epsilon(y, bbox.min_y) THEN "Top"
  ELSE "Bottom"

\* One turn of the loop over the corners, d being the Dcel after
\* create_vertex and create_twins: corner and corner_edge are the new ones.
bound_corner(d, corner, corner_edge, out_vertex, exiting_edge) == set_next(set_origin(set_origin(d, corner_edge, out_vertex), get_twin(d, exiting_edge), corner), exiting_edge, corner_edge)

\* for (corner_x, corner_y) in corners_between(exiting_side, side, &bbox):
\* [d, out_vertex, exiting_edge, panic]
RECURSIVE bound_corners(_, _, _, _)
bound_corners(d, corners, out_vertex, exiting_edge) ==
  IF corners = << >>
  THEN [d |-> d, out_vertex |-> out_vertex, exiting_edge |-> exiting_edge, panic |-> ""]
  ELSE IF exiting_edge + 1 \notin DOMAIN d.halfedges
  THEN [d |-> d, out_vertex |-> out_vertex, exiting_edge |-> exiting_edge, panic |-> "index"]
  ELSE bound_corners(bound_corner(create_twins(create_vertex(d, Head(corners)[1], Head(corners)[2]).d).d, Len(d.vertices), Len(d.halfedges), out_vertex, exiting_edge), Tail(corners), Len(d.vertices), Len(d.halfedges))

\* The corners to add between the side left and the side entered.
bound_corners_for(d, exiting_side, side, bbox, out_vertex, exiting_edge) == bound_corners(d, IF side # exiting_side THEN corners_between(exiting_side, side, bbox) ELSE << >>, out_vertex, exiting_edge)

\* Lines 261-269, d being the Dcel after create_vertex and the two
\* create_twins: bbox_edge, its twin, entering_edge and its twin are new.
bound_link_entering(d, i, next, out_vertex, exiting_edge, in_vertex, bbox_edge, entering_edge) == [copy_origin(set_next(set_origin(set_origin(set_next(set_next(set_origin(set_origin(d, bbox_edge, out_vertex), bbox_edge + 1, in_vertex), bbox_edge, entering_edge), exiting_edge, bbox_edge), get_twin(d, exiting_edge), out_vertex), entering_edge, in_vertex), entering_edge, next), entering_edge + 1, next) EXCEPT !.faces[i + 1] = entering_edge]

\* Outside, result Intersect {x, y, side}: c is what the corners left.
bound_enter_intersect(c, i, next, x, y) ==
  IF c.panic # "" THEN BoundDone(c.d, FALSE, c.panic)
  ELSE IF c.exiting_edge + 1 \notin DOMAIN c.d.halfedges THEN BoundDone(c.d, FALSE, "index")
  ELSE BoundDone(bound_link_entering(create_twins(create_twins(create_vertex(c.d, x, y).d).d).d, i, next, c.out_vertex, c.exiting_edge, Len(c.d.vertices), Len(c.d.halfedges), Len(c.d.halfedges) + 2), FALSE, "")

\* Lines 301-306, d being the Dcel after create_twins.
bound_link_inside(d, i, edge, out_vertex, exiting_edge, bbox_edge) == [set_origin(set_next(set_next(copy_origin(set_origin(d, bbox_edge, out_vertex), bbox_edge + 1, edge), bbox_edge, edge), exiting_edge, bbox_edge), get_twin(d, exiting_edge), out_vertex) EXCEPT !.faces[i + 1] = edge]

\* Outside, result Inside: c is what the corners left.
bound_enter_inside(c, i, edge) ==
  IF c.panic # "" THEN BoundDone(c.d, FALSE, c.panic)
  ELSE IF c.exiting_edge + 1 \notin DOMAIN c.d.halfedges THEN BoundDone(c.d, FALSE, "index")
  ELSE BoundDone(bound_link_inside(create_twins(c.d).d, i, edge, c.out_vertex, c.exiting_edge, Len(c.d.halfedges)), FALSE, "")

\* The walk from starting_edge: one turn of the loop is bound_walk up to
\* let result = bound(segment, bbox), and bound_turn from there.
RECURSIVE bound_walk(_, _, _, _, _, _, _, _, _, _, _)
bound_turn(d, i, bbox, starting_edge, state, prev_edge, edge, exiting_edge, out_vertex, exiting_side, fuel, next, res) ==
  IF state = 0 /\ res.kind = "Intersect"
  THEN IF next = starting_edge THEN BoundDone(create_vertex(d, res.x, res.y).d, FALSE, "")
       ELSE bound_walk(create_vertex(d, res.x, res.y).d, i, bbox, starting_edge, 1, edge, next, edge, Len(d.vertices), res.side, fuel - 1)
  ELSE IF state = 0 /\ res.kind = "Outside"
  THEN IF next = starting_edge THEN BoundDone(set_active(d, edge, FALSE), FALSE, "")
       ELSE bound_walk(set_active(d, edge, FALSE), i, bbox, starting_edge, 1, edge, next, prev_edge, d.halfedges[edge + 1].origin, side_of_vertex(d.vertices[d.halfedges[edge + 1].origin + 1].x, d.vertices[d.halfedges[edge + 1].origin + 1].y, bbox), fuel - 1)
  ELSE IF state = 1 /\ res.kind = "Intersect"
  THEN bound_enter_intersect(bound_corners_for(set_active(d, edge, FALSE), exiting_side, res.side, bbox, out_vertex, exiting_edge), i, next, res.x, res.y)
  ELSE IF state = 1 /\ res.kind = "Inside"
  THEN bound_enter_inside(bound_corners_for(set_active(d, edge, FALSE), exiting_side, side_of_vertex(d.vertices[d.halfedges[edge + 1].origin + 1].x, d.vertices[d.halfedges[edge + 1].origin + 1].y, bbox), bbox, out_vertex, exiting_edge), i, edge)
  ELSE IF next = starting_edge THEN BoundDone(IF state = 1 THEN set_active(d, edge, FALSE) ELSE d, FALSE, "")
  ELSE bound_walk(IF state = 1 THEN set_active(d, edge, FALSE) ELSE d, i, bbox, starting_edge, state, edge, next, exiting_edge, out_vertex, exiting_side, fuel - 1)

bound_walk(d, i, bbox, starting_edge, state, prev_edge, edge, exiting_edge, out_vertex, exiting_side, fuel) ==
  IF edge + 1 \notin DOMAIN d.halfedges THEN BoundDone(d, FALSE, "index")
  ELSE IF d.halfedges[edge + 1].origin = NIL \/ d.halfedges[edge + 1].next = NIL
  THEN BoundDone(d, TRUE, "")
  ELSE IF \/ d.halfedges[edge + 1].origin + 1 \notin DOMAIN d.vertices
          \/ d.halfedges[edge + 1].next + 1 \notin DOMAIN d.halfedges
  THEN BoundDone(d, FALSE, "index")
  ELSE IF d.halfedges[d.halfedges[edge + 1].next + 1].origin + 1 \notin DOMAIN d.vertices
  THEN BoundDone(d, FALSE, "index")
  ELSE IF fuel = 0 THEN BoundDone(d, FALSE, "diverge")
  ELSE bound_turn(d, i, bbox, starting_edge, state, prev_edge, edge, exiting_edge, out_vertex, exiting_side, fuel, d.halfedges[edge + 1].next,
                  bound(LineSegment(d.vertices[d.halfedges[edge + 1].origin + 1].x, d.vertices[d.halfedges[edge + 1].origin + 1].y, d.vertices[d.halfedges[d.halfedges[edge + 1].next + 1].origin + 1].x, d.vertices[d.halfedges[d.halfedges[edge + 1].next + 1].origin + 1].y), bbox))

\* bound_face with let mut state = 1, the walk starting as if outside.
bound_face_starts_outside(d, i, bbox, s) ==
  IF s.panic # "" THEN BoundDone(d, FALSE, s.panic)
  ELSE IF s.remove THEN BoundDone(d, TRUE, "")
  ELSE bound_walk(d, i, bbox, s.edge, 1, NIL, s.edge, NIL, NIL, "Left", Len(d.halfedges))

\* The body of for i in 0..face_count, s being what the search found.
bound_face(d, i, bbox, s) ==
  IF s.panic # "" THEN BoundDone(d, FALSE, s.panic)
  ELSE IF s.remove THEN BoundDone(d, TRUE, "")
  ELSE bound_walk(d, i, bbox, s.edge, 0, NIL, s.edge, NIL, NIL, "Left", Len(d.halfedges))

\* for i in 0..face_count, from face i on: [d, faces_to_remove, panic]
RECURSIVE bound_faces(_, _, _, _, _)
bound_faces_next(r, i, face_count, bbox, faces_to_remove) ==
  IF r.panic # "" THEN [d |-> r.d, faces_to_remove |-> faces_to_remove, panic |-> r.panic]
  ELSE bound_faces(r.d, i + 1, face_count, bbox, IF r.remove THEN Append(faces_to_remove, i) ELSE faces_to_remove)

bound_faces(d, i, face_count, bbox, faces_to_remove) ==
  IF i >= face_count THEN [d |-> d, faces_to_remove |-> faces_to_remove, panic |-> ""]
  ELSE bound_faces_next(bound_face(d, i, bbox, bound_starting_edge(d, d.faces[i + 1], d.faces[i + 1], bbox, Len(d.halfedges))), i, face_count, bbox, faces_to_remove)

\* for face in faces_to_remove { self.faces[face] = NIL; }
bound_remove(r) ==
  IF r.panic # "" THEN [d |-> r.d, panic |-> r.panic]
  ELSE [d |-> [r.d EXCEPT !.faces = [k \in DOMAIN r.d.faces |-> IF \E j \in DOMAIN r.faces_to_remove : r.faces_to_remove[j] = k - 1 THEN NIL ELSE r.d.faces[k]]],
        panic |-> ""]

\* pub fn bound(&mut self, bbox: &BoundingBox): [d, panic]
Dcel_bound(d, bbox) == bound_remove(bound_faces(d, 0, Len(d.faces), bbox, << >>))

(***************************************************************************)
(* Voronoi (src/src/lib.rs).  A Voronoi is the record of its fields and    *)
(* `panic`, the message of the panic that aborted the run ("" for none).   *)
(***************************************************************************)
Site(x, y, id) == [x |-> NumInt(x), y |-> NumInt(y), id |-> id]

VPanic(w, msg) == [w EXCEPT !.panic = msg]

\* The closure that run passes to search: where x is, seen from arc ptr
\* under the directrix y; "Panic" when it indexes a node that is not there.
SiteComparator(b, ptr, x, y) ==
  IF ~Live(b, ptr) THEN "Panic"
  ELSE
    LET site == b.nodes[ptr].value
        left_ptr == predecessor(b, ptr)
        right_ptr == successor(b, ptr)
    IN IF left_ptr = PANICP \/ (left_ptr # NIL /\ ~Live(b, left_ptr)) THEN "Panic"
       ELSE IF left_ptr # NIL
               /\ FLess(NumInt(x),
                        breakpoint_between(b.nodes[left_ptr].value.x.a,
                                           b.nodes[left_ptr].value.y.a,
                                           site.x.a, site.y.a, y))
       THEN "Less"
       ELSE IF right_ptr = PANICP \/ (right_ptr # NIL /\ ~Live(b, right_ptr))
       THEN "Panic"
       ELSE IF right_ptr # NIL
               /\ FLess(breakpoint_between(site.x.a, site.y.a,
                                           b.nodes[right_ptr].value.x.a,
                                           b.nodes[right_ptr].value.y.a, y),
                        NumInt(x))
       THEN "Greater"
       ELSE "Equal"

\* pub fn search of BeachLine with that closure; PANICP when it panics or
\* does not end.
RECURSIVE search_from(_, _, _, _, _)
search_from(b, current_node, x, y, fuel) ==
  IF current_node = NIL THEN NIL
  ELSE IF fuel = 0 THEN PANICP
  ELSE
    LET result == SiteComparator(b, current_node, x, y)
    IN IF result = "Panic" THEN PANICP
       ELSE IF result = "Less"
       THEN search_from(b, b.nodes[current_node].left, x, y, fuel - 1)
       ELSE IF result = "Greater"
       THEN search_from(b, b.nodes[current_node].right, x, y, fuel - 1)
       ELSE current_node

search(b, x, y) == search_from(b, b.root, x, y, Fuel(b))

\* returns [w |-> the Voronoi, edge |-> index, twin |-> index]
create_halfedges(w, left, right) ==
  IF w.panic # "" THEN [w |-> w, edge |-> NIL, twin |-> NIL]
  ELSE IF <<left.id, right.id>> \in DOMAIN w.halfedges_by_site_pair
  THEN [w |-> VPanic(w, "Edge already exists"), edge |-> NIL, twin |-> NIL]
  ELSE
    LET t == create_twins(w.dcel)
        m1 == MapPut(w.halfedges_by_site_pair, <<left.id, right.id>>, t.edge)
        m2 == MapPut(m1, <<right.id, left.id>>, t.twin)
        d1 == ensure_face(t.d, left.id, t.edge)
        d2 == ensure_face(d1, right.id, t.twin)
    IN [w |-> [w EXCEPT !.halfedges_by_site_pair = m2, !.dcel = d2],
        edge |-> t.edge, twin |-> t.twin]

\* the halfedge, or PANICP
get_halfedge(w, left, right) ==
  IF <<left.id, right.id>> \in DOMAIN w.halfedges_by_site_pair
  THEN w.halfedges_by_site_pair[<<left.id, right.id>>]
  ELSE PANICP

\* A delete_vertex_event that forgets the map entry and leaves the circle
\* event in the queue.
delete_vertex_event_keeps_event(w, segment) ==
  IF w.panic = "" /\ segment \in DOMAIN w.events_by_beach_segment
  THEN [w EXCEPT !.events_by_beach_segment = MapRemove(@, segment)]
  ELSE w

\* A delete_vertex_event that cancels nothing.
delete_vertex_event_skipped(w, segment) == w

delete_vertex_event(w, segment) ==
  IF w.panic = "" /\ segment \in DOMAIN w.events_by_beach_segment
  THEN [w EXCEPT
          !.events = EQ_delete(w.events, w.events_by_beach_segment[segment]).q,
          !.events_by_beach_segment = MapRemove(@, segment)]
  ELSE w

\* A create_vertex_event without the test of the orientation.
create_vertex_event_any_orientation(w, segment) ==
  IF w.panic # "" THEN w
  ELSE IF segment \in DOMAIN w.events_by_beach_segment
  THEN VPanic(w, "Creating an already-existing vertex event")
  ELSE IF ~Live(w.beach, predecessor(w.beach, segment)) \/ ~Live(w.beach, successor(w.beach, segment))
  THEN w
  ELSE
    LET left_site == get(w.beach, predecessor(w.beach, segment))
        middle_site == get(w.beach, segment)
        right_site == get(w.beach, successor(w.beach, segment))
        center == find_center(left_site.x.a, left_site.y.a,
                              middle_site.x.a, middle_site.y.a,
                              right_site.x.a, right_site.y.a)
        r == EQ_insert(w.events,
                       VertexEvent(segment, center.cx,
                                   NumAdd(center.cy, center.rad), center.rad))
    IN IF ~center.some THEN w
       ELSE [w EXCEPT !.events = r.q,
                      !.events_by_beach_segment = MapPut(@, segment, r.ret)]

create_vertex_event(w, segment) ==
  IF w.panic # "" THEN w
  ELSE IF segment \in DOMAIN w.events_by_beach_segment
  THEN VPanic(w, "Creating an already-existing vertex event")
  ELSE
    LET left == predecessor(w.beach, segment)
        right == successor(w.beach, segment)
    IN IF left = PANICP \/ right = PANICP THEN VPanic(w, "index")
       ELSE IF left = NIL \/ right = NIL THEN w
       ELSE IF ~Live(w.beach, left) \/ ~Live(w.beach, right) THEN VPanic(w, "index")
       ELSE
         LET left_site == get(w.beach, left)
             middle_site == get(w.beach, segment)
             right_site == get(w.beach, right)
             is_clockwise ==
               (middle_site.y.a - left_site.y.a) * (right_site.x.a - middle_site.x.a)
                 - (right_site.y.a - middle_site.y.a) * (middle_site.x.a - left_site.x.a)
               > 0
             center == find_center(left_site.x.a, left_site.y.a,
                                   middle_site.x.a, middle_site.y.a,
                                   right_site.x.a, right_site.y.a)
         IN IF is_clockwise THEN w
            ELSE IF ~center.some THEN w
            ELSE
              LET r == EQ_insert(w.events,
                                 VertexEvent(segment, center.cx,
                                             NumAdd(center.cy, center.rad), center.rad))
              IN [w EXCEPT !.events = r.q,
                           !.events_by_beach_segment = MapPut(@, segment, r.ret)]

HalfEdgeOf(x, y, dx, dy) == [kind |-> "Half", x1 |-> x, y1 |-> y, x2 |-> dx, y2 |-> dy]

FullEdgeOf(x1, y1, x2, y2) == [kind |-> "Full", x1 |-> x1, y1 |-> y1, x2 |-> x2, y2 |-> y2]

add_vertex_to_edge(w, a, b, x, y) ==
  LET k == <<a.id, b.id>>
      m == w.edges_by_site_pair
      new_edge == IF k \in DOMAIN m
                  THEN (IF m[k].kind = "Half" THEN FullEdgeOf(m[k].x1, m[k].y1, x, y)
                        ELSE m[k])
                  ELSE HalfEdgeOf(x, y, NumSub(b.y, a.y), NumSub(a.x, b.x))
  IN [w EXCEPT !.edges_by_site_pair = MapPut(m, k, new_edge)]

\* delete_vertex_event, then create_vertex_event, for each segment in turn
RECURSIVE delete_vertex_events(_, _)
delete_vertex_events(w, segments) ==
  IF segments = << >> THEN w
  ELSE delete_vertex_events(delete_vertex_event(w, Head(segments)), Tail(segments))

RECURSIVE create_vertex_events(_, _)
create_vertex_events(w, segments) ==
  IF segments = << >> THEN w
  ELSE create_vertex_events(create_vertex_event(w, Head(segments)), Tail(segments))

\* One turn of the loop of run for Some(Event::Site(site)), from the end:
\* the vertex events of the left and the right segment and the halfedges,
\* r2 being what the second insert_after returned.
site_event_events(w, site, segment_to_split, r2) ==
  IF r2.b.panic # "" THEN VPanic(w, r2.b.panic)
  ELSE create_halfedges(create_vertex_events([w EXCEPT !.beach = r2.b],
                                             <<segment_to_split, r2.ret>>),
                        site, get(r2.b, segment_to_split)).w

\* ... the right segment, r1 being what the first insert_after returned ...
site_event_right(w, site, segment_to_split, r1) ==
  IF r1.b.panic # "" THEN VPanic(w, r1.b.panic)
  ELSE site_event_events(w, site, segment_to_split,
                         insert_after(r1.b, r1.ret, get(r1.b, segment_to_split),
                                      Fuel(r1.b)))

\* ... the segment found, its vertex event and the middle segment ...
site_event_split(w, site, segment_to_split) ==
  IF segment_to_split = PANICP THEN VPanic(w, "index")
  ELSE site_event_right(delete_vertex_event(w, segment_to_split), site,
                        segment_to_split,
                        insert_after(w.beach, segment_to_split, site, Fuel(w.beach)))

\* ... and the search.
site_event(w, site) == site_event_split(w, site, search(w.beach, site.x.a, site.y.a))

\* A vertex_event_link that sets the next of lm to the new half-edge of the
\* sites (right, left) in place of its twin.
vertex_event_link_to_new_edge(c, lm, mr, vertex, left_site, middle_site, right_site, vertex_x, vertex_y) ==
  IF c.w.panic # "" THEN c.w
  ELSE
    LET lm_twin == get_twin(c.w.dcel, lm)
        mr_twin == get_twin(c.w.dcel, mr)
        d1 == set_origin(c.w.dcel, lm_twin, vertex)
        d2 == set_origin(d1, mr_twin, vertex)
        d3 == set_origin(d2, c.twin, vertex)
        d4 == set_next(d3, lm, c.edge)
        d5 == set_next(d4, mr, lm_twin)
        d6 == set_next(d5, c.edge, mr_twin)
    IN add_vertex_to_edge(
         add_vertex_to_edge(
           add_vertex_to_edge([c.w EXCEPT !.dcel = d6], left_site, middle_site,
                              vertex_x, vertex_y),
           middle_site, right_site, vertex_x, vertex_y),
         right_site, left_site, vertex_x, vertex_y)

\* One turn of the loop of run for Some(Event::Vertex(middle, x, y, rad)), from
\* the end: the origins and nexts of the three halfedge pairs at the vertex,
\* c being what create_halfedges(right_site, left_site) returned.
vertex_event_link(c, lm, mr, vertex, left_site, middle_site, right_site, vertex_x, vertex_y) ==
  IF c.w.panic # "" THEN c.w
  ELSE
    LET lm_twin == get_twin(c.w.dcel, lm)
        mr_twin == get_twin(c.w.dcel, mr)
        d1 == set_origin(c.w.dcel, lm_twin, vertex)
        d2 == set_origin(d1, mr_twin, vertex)
        d3 == set_origin(d2, c.twin, vertex)
        d4 == set_next(d3, lm, c.twin)
        d5 == set_next(d4, mr, lm_twin)
        d6 == set_next(d5, c.edge, mr_twin)
    IN add_vertex_to_edge(
         add_vertex_to_edge(
           add_vertex_to_edge([c.w EXCEPT !.dcel = d6], left_site, middle_site,
                              vertex_x, vertex_y),
           middle_site, right_site, vertex_x, vertex_y),
         right_site, left_site, vertex_x, vertex_y)

\* A vertex event that asks for the halfedges of the pair (left, middle), which
\* has them since its site event, in place of the new pair (right, left).
vertex_event_edges_left_middle(w, left, right, middle_site, vertex_x, vertex_y) ==
  IF w.panic # "" THEN w
  ELSE IF ~Live(w.beach, left) \/ ~Live(w.beach, right) THEN VPanic(w, "index")
  ELSE IF get_halfedge(w, get(w.beach, left), middle_site) = PANICP
          \/ get_halfedge(w, middle_site, get(w.beach, right)) = PANICP
  THEN VPanic(w, "Tried getting a non-existant halfedge")
  ELSE vertex_event_link(
         create_halfedges([w EXCEPT !.dcel = create_vertex(@, vertex_x, vertex_y).d],
                          get(w.beach, left), middle_site),
         get_halfedge(w, get(w.beach, left), middle_site),
         get_halfedge(w, middle_site, get(w.beach, right)),
         create_vertex(w.dcel, vertex_x, vertex_y).ret,
         get(w.beach, left), middle_site, get(w.beach, right), vertex_x, vertex_y)

\* ... the halfedges of the two edges that end and the new vertex ...
vertex_event_edges(w, left, right, middle_site, vertex_x, vertex_y) ==
  IF w.panic # "" THEN w
  ELSE IF ~Live(w.beach, left) \/ ~Live(w.beach, right) THEN VPanic(w, "index")
  ELSE IF get_halfedge(w, get(w.beach, left), middle_site) = PANICP
          \/ get_halfedge(w, middle_site, get(w.beach, right)) = PANICP
  THEN VPanic(w, "Tried getting a non-existant halfedge")
  ELSE vertex_event_link(
         create_halfedges([w EXCEPT !.dcel = create_vertex(@, vertex_x, vertex_y).d],
                          get(w.beach, right), get(w.beach, left)),
         get_halfedge(w, get(w.beach, left), middle_site),
         get_halfedge(w, middle_site, get(w.beach, right)),
         create_vertex(w.dcel, vertex_x, vertex_y).ret,
         get(w.beach, left), middle_site, get(w.beach, right), vertex_x, vertex_y)

\* ... the vertex events of the two neighbours, r being what delete returned ...
vertex_event_deleted(w, middle, left, right, r, vertex_x, vertex_y) ==
  IF left = PANICP \/ right = PANICP THEN VPanic(w, "index")
  ELSE IF r.b.panic # "" THEN VPanic(w, r.b.panic)
  ELSE IF middle = NIL THEN VPanic(w, "called Option::unwrap() on a None value")
  ELSE vertex_event_edges(
         create_vertex_events(
           delete_vertex_events([w EXCEPT !.beach = r.b], <<left, right>>),
           <<left, right>>),
         left, right, r.ret, vertex_x, vertex_y)

\* ... and the map entry, the neighbours and the delete.
vertex_event(w, middle, x, y, rad) ==
  vertex_event_deleted([w EXCEPT !.events_by_beach_segment = MapRemove(@, middle)],
                       middle, predecessor(w.beach, middle), successor(w.beach, middle),
                       delete(w.beach, middle, Fuel(w.beach)), x, NumSub(y, rad))

\* for site in self.sites.iter() { self.events.insert(Event::Site(..)) }
RECURSIVE insert_sites(_, _, _)
insert_sites(q, ss, i) ==
  IF i > Len(ss) THEN q
  ELSE insert_sites(EQ_insert(q, SiteEvent(ss[i].x, ss[i].y, ss[i].id)).q, ss, i + 1)

(***************************************************************************)
(* State.  `beach` is the BeachLine; `last` is the call made last: its     *)
(* name, the pointer it was given and the pointer or value it returned;    *)
(* `ndel` counts the calls of delete.                                       *)
(* BeachLine<T> never reads a value of T, so the caller's values are       *)
(* modelled by one value per slab key (ValueFor), which makes the values   *)
(* of the occupied keys pairwise different.                                *)
(***************************************************************************)
vars == <<beach, last, ndel, queue, qlast, unit, sites, events_by_beach_segment,
          edges_by_site_pair, halfedges_by_site_pair, dcel, pc, clipSegment,
          clipBox, clipResult, gotPolygons>>
beachVars == <<beach, last, ndel>>
queueVars == <<queue, qlast>>
clipVars == <<clipSegment, clipBox, clipResult, gotPolygons>>
sweepVars == <<unit, sites, events_by_beach_segment, edges_by_site_pair,
               halfedges_by_site_pair, dcel, pc, clipVars>>

\* Nothing was clipped and no polygons were asked for.
NoSegment == LineSegment(NaN, NaN, NaN, NaN)
NoBox == BoundingBox_new(NaN, NaN, NaN, NaN)
NoResult == [kind |-> "", x |-> NaN, y |-> NaN, side |-> ""]
NoPolygons == [panic |-> "none", polygons |-> << >>]

NoCall == [op |-> "new", at |-> NIL, ret |-> NIL]

ValueFor(key) == key + 1

NoQCall == [op |-> "new", h |-> NIL, ret |-> NoEvent]

InitBeach ==
  /\ beach = BeachLine_new
  /\ last = NoCall
  /\ ndel = 0
  /\ queue = EventQueue_new
  /\ qlast = NoQCall
  /\ unit = "half_epsilon"
  /\ sites = << >>
  /\ events_by_beach_segment = << >>
  /\ edges_by_site_pair = << >>
  /\ halfedges_by_site_pair = << >>
  /\ dcel = Dcel_new(0)
  /\ pc = "new"
  /\ clipSegment = NoSegment
  /\ clipBox = NoBox
  /\ clipResult = NoResult
  /\ gotPolygons = NoPolygons

\* beach.init(v); the pointer it hands out is the root.
CallInit ==
  /\ beach.panic = ""
  /\ beach' = init(beach, ValueFor(SlabNextKey(beach)))
  /\ last' = [op |-> "init", at |-> NIL, ret |-> beach'.root]
  /\ UNCHANGED <<ndel, queueVars, sweepVars>>

CallInsertAfter(h) ==
  /\ beach.panic = ""
  /\ Cardinality(DOMAIN beach.nodes) < MaxNodes
  /\ \E r \in {insert_after(beach, h, ValueFor(SlabNextKey(beach)), Fuel(beach))} :
        /\ beach' = r.b
        /\ last' = [op |-> "insert_after", at |-> h, ret |-> r.ret]
        /\ UNCHANGED <<ndel, queueVars, sweepVars>>

CallInsertBefore(h) ==
  /\ beach.panic = ""
  /\ Cardinality(DOMAIN beach.nodes) < MaxNodes
  /\ \E r \in {insert_before(beach, h, ValueFor(SlabNextKey(beach)), Fuel(beach))} :
        /\ beach' = r.b
        /\ last' = [op |-> "insert_before", at |-> h, ret |-> r.ret]
        /\ UNCHANGED <<ndel, queueVars, sweepVars>>

CallDelete(h) ==
  /\ beach.panic = ""
  /\ ndel < MaxDeletes
  /\ ndel' = ndel + 1
  /\ \E r \in {delete(beach, h, Fuel(beach))} :
        /\ beach' = r.b
        /\ last' = [op |-> "delete", at |-> h, ret |-> r.ret]
        /\ UNCHANGED <<queueVars, sweepVars>>

NextBeach ==
  \/ CallInit
  \/ \E h \in DOMAIN beach.nodes : CallInsertAfter(h)
  \/ \E h \in DOMAIN beach.nodes : CallInsertBefore(h)
  \/ \E h \in DOMAIN beach.nodes : CallDelete(h)

SpecBeach == InitBeach /\ [][NextBeach]_vars

(***************************************************************************)
(* The event queue on its own: insert, pop and delete in any order.        *)
(* `qlast` is the call made last, the handle it was given (delete) or      *)
(* handed out (insert) and the event it returned.                          *)
(***************************************************************************)
Ys == 0 .. MaxY
Xs == {EPSILON * k : k \in 0 .. MaxX}
Handles == 0 .. MaxQueue - 1

InitQueue == InitBeach

CallQInsert(x, y) ==
  /\ EQ_len(queue) < MaxQueue
  /\ \E r \in {EQ_insert(queue, SiteEvent(NumInt(x), NumInt(y), EQ_NextKey(queue)))} :
        /\ queue' = r.q
        /\ qlast' = [op |-> "insert", h |-> r.ret, ret |-> NoEvent]
  /\ UNCHANGED <<beachVars, sweepVars>>

CallQPop ==
  /\ \E r \in {EQ_pop(queue)} :
        /\ queue' = r.q
        /\ qlast' = [op |-> "pop", h |-> NIL, ret |-> r.ret]
  /\ UNCHANGED <<beachVars, sweepVars>>

\* delete with any handle the queue ever handed out, live or not.
CallQDelete(h) ==
  /\ \E r \in {EQ_delete(queue, h)} :
        /\ queue' = r.q
        /\ qlast' = [op |-> "delete", h |-> h, ret |-> r.ret]
  /\ UNCHANGED <<beachVars, sweepVars>>

NextQueue ==
  \/ \E x \in Xs, y \in Ys : CallQInsert(x, y)
  \/ CallQPop
  \/ \E h \in Handles : CallQDelete(h)

SpecQueue == InitQueue /\ [][NextQueue]_vars

(***************************************************************************)
(* The sweep: Voronoi::new(sites) and then run, one turn of its loop at a  *)
(* time.                                                                   *)
(***************************************************************************)
GridPoints == (0 .. MaxCoord) \X (0 .. MaxCoord)

\* Voronoi::new numbers the sites in the order given.
SitesOf(ps) == [i \in 1 .. Len(ps) |-> Site(ps[i][1], ps[i][2], i - 1)]

\* The input vectors of n sites.
Inputs(n) == [1 .. n -> GridPoints]

\* The inputs of src/examples/main.rs and src/examples/simple.rs, and five
\* sites of which the middle one, (1,1), has a cell with the four vertices
\* (0,1), (3/2,-1/2), (3/2,3/2) and (1,2).
ThreeSites == << <<50, 50>>, <<70, 60>>, <<55, 70>> >>
FiveSiteCross == << <<-1, 0>>, <<0, 0>>, <<1, 0>>, <<0, 1>>, <<0, -1>> >>
FiveSitesFourCorneredCell == << <<0, 0>>, <<0, 2>>, <<1, 1>>, <<2, 1>>, <<2, 2>> >>
Examples == {ThreeSites, FiveSiteCross, FiveSitesFourCorneredCell}

\* The rectangles the diagrams are clipped to: the one of simple.rs, the
\* grid, the grid with a margin, and a band of height 1 across the grid.
Boxes ==
  { BoundingBox_new(NumInt(-10), NumInt(-10), NumInt(10), NumInt(10)),
    BoundingBox_new(NumInt(0), NumInt(0), NumInt(MaxCoord), NumInt(MaxCoord)),
    BoundingBox_new(NumInt(-1), NumInt(-1), NumInt(MaxCoord + 1), NumInt(MaxCoord + 1)),
    BoundingBox_new(NumInt(-1), Num(1, 0, 0, 2), NumInt(MaxCoord + 1), Num(3, 0, 0, 2)) }

InitSweep ==
  /\ \/ \E n \in 0 .. MaxSites : \E ps \in Inputs(n) : sites = SitesOf(ps)
     \/ \E ps \in Examples : sites = SitesOf(ps)
  /\ unit = "grid"
  /\ queue = EventQueue_new
  /\ beach = BeachLine_new
  /\ events_by_beach_segment = << >>
  /\ edges_by_site_pair = << >>
  /\ dcel = Dcel_new(Len(sites))
  /\ halfedges_by_site_pair = << >>
  /\ pc = "new"
  /\ last = NoCall
  /\ ndel = 0
  /\ qlast = NoQCall
  /\ clipSegment = NoSegment
  /\ clipBox = NoBox
  /\ clipResult = NoResult
  /\ gotPolygons = NoPolygons

Self ==
  [events |-> queue, beach |-> beach,
   events_by_beach_segment |-> events_by_beach_segment,
   edges_by_site_pair |-> edges_by_site_pair, dcel |-> dcel,
   halfedges_by_site_pair |-> halfedges_by_site_pair, panic |-> ""]

\* The state after a turn that left the Voronoi w.
Becomes(w) ==
  /\ queue' = w.events
  /\ beach' = w.beach
  /\ events_by_beach_segment' = w.events_by_beach_segment
  /\ edges_by_site_pair' = w.edges_by_site_pair
  /\ dcel' = w.dcel
  /\ halfedges_by_site_pair' = w.halfedges_by_site_pair
  /\ pc' = IF w.panic # "" THEN w.panic ELSE "loop"
  /\ UNCHANGED <<unit, sites, last, ndel, qlast, clipVars>>

\* run up to its loop: the site events, the first pop, init.
RunFirstSite ==
  /\ pc = "new"
  /\ \E r \in {EQ_pop(insert_sites(queue, sites, 1))} :
        /\ r.ret.kind = "Site"
        /\ \E b \in {init(beach, [x |-> r.ret.x, y |-> r.ret.y, id |-> r.ret.id])} :
              Becomes([Self EXCEPT !.events = r.q, !.beach = b, !.panic = b.panic])

\* No points: run returns the empty Dcel.
RunNoSites ==
  /\ pc = "new"
  /\ EQ_pop(insert_sites(queue, sites, 1)).ret.kind # "Site"
  /\ pc' = "done"
  /\ UNCHANGED <<beachVars, queueVars, unit, sites, events_by_beach_segment,
                 edges_by_site_pair, halfedges_by_site_pair, dcel, clipVars>>

RunSiteEvent ==
  /\ pc = "loop"
  /\ EQ_len(queue) > 0
  /\ \E r \in {EQ_pop(queue)} :
        /\ r.ret.kind = "Site"
        /\ \E w \in {site_event([Self EXCEPT !.events = r.q],
                                [x |-> r.ret.x, y |-> r.ret.y, id |-> r.ret.id])} :
              Becomes(w)

RunVertexEvent ==
  /\ pc = "loop"
  /\ EQ_len(queue) > 0
  /\ \E r \in {EQ_pop(queue)} :
        /\ r.ret.kind = "Vertex"
        /\ \E w \in {vertex_event([Self EXCEPT !.events = r.q],
                                  r.ret.arc, r.ret.x, r.ret.y, r.ret.rad)} :
              Becomes(w)

\* The queue is empty: run drains edges_by_site_pair and returns the Dcel.
RunReturn ==
  /\ pc = "loop"
  /\ EQ_len(queue) = 0
  /\ pc' = "done"
  /\ edges_by_site_pair' = << >>
  /\ UNCHANGED <<beachVars, queueVars, unit, sites, events_by_beach_segment,
                 halfedges_by_site_pair, dcel, clipVars>>

\* dcel.bound(&bbox) on the Dcel that run returned.
RunBound(box) ==
  /\ pc = "done"
  /\ gotPolygons = NoPolygons
  /\ \E r \in {Dcel_bound(dcel, box)} :
        /\ dcel' = r.d
        /\ pc' = IF r.panic = "" THEN "bounded"
                 ELSE IF r.panic = "index" THEN "bound index" ELSE "bound diverge"
  /\ clipBox' = box
  /\ UNCHANGED <<beachVars, queueVars, unit, sites, events_by_beach_segment,
                 edges_by_site_pair, halfedges_by_site_pair, clipSegment,
                 clipResult, gotPolygons>>

\* dcel.get_polygons() on the Dcel that run returned or bound has clipped.
RunGetPolygons ==
  /\ pc \in {"done", "bounded"}
  /\ gotPolygons = NoPolygons
  /\ gotPolygons' = get_polygons(dcel)
  /\ UNCHANGED <<beachVars, queueVars, unit, sites, events_by_beach_segment,
                 edges_by_site_pair, halfedges_by_site_pair, dcel, pc,
                 clipSegment, clipBox, clipResult>>

NextSweep ==
  \/ RunFirstSite
  \/ RunNoSites
  \/ RunSiteEvent
  \/ RunVertexEvent
  \/ RunReturn
  \/ \E box \in Boxes : RunBound(box)
  \/ RunGetPolygons

SpecSweep == InitSweep /\ [][NextSweep]_vars

\* A turn of run: RunStep can be taken exactly when pc is "new" or "loop".
RunStep == RunFirstSite \/ RunNoSites \/ RunSiteEvent \/ RunVertexEvent \/ RunReturn

\* run is one thread that is never suspended for ever: weak fairness of
\* RunStep, written out with the condition that enables it, and of RunReturn.
SpecSweepFair ==
  /\ SpecSweep
  /\ WF_vars(RunReturn)
  /\ []<>(pc \notin {"new", "loop"}) \/ []<><<RunStep>>_vars

(***************************************************************************)
(* The segment clipper on its own: a segment with whole coordinates and a  *)
(* rectangle with min_x < max_x and min_y < max_y, then one call of bound. *)
(***************************************************************************)
ClipCoords == (0 - MaxClip) .. MaxClip
BoxCoords == (1 - MaxClip) .. (MaxClip - 1)

InitClip ==
  /\ \E sx, sy, ex, ey \in ClipCoords :
        clipSegment = LineSegment(NumInt(sx), NumInt(sy), NumInt(ex), NumInt(ey))
  /\ \E x0, y0, x1, y1 \in BoxCoords :
        /\ x0 < x1 /\ y0 < y1
        /\ clipBox = BoundingBox_new(NumInt(x0), NumInt(y0), NumInt(x1), NumInt(y1))
  /\ clipResult = NoResult
  /\ gotPolygons = NoPolygons
  /\ unit = "grid"
  /\ beach = BeachLine_new
  /\ last = NoCall
  /\ ndel = 0
  /\ queue = EventQueue_new
  /\ qlast = NoQCall
  /\ sites = << >>
  /\ events_by_beach_segment = << >>
  /\ edges_by_site_pair = << >>
  /\ halfedges_by_site_pair = << >>
  /\ dcel = Dcel_new(0)
  /\ pc = "new"

CallBound ==
  /\ clipResult = NoResult
  /\ clipResult' = bound(clipSegment, clipBox)
  /\ UNCHANGED <<beachVars, queueVars, unit, sites, events_by_beach_segment,
                 edges_by_site_pair, halfedges_by_site_pair, dcel, pc,
                 clipSegment, clipBox, gotPolygons>>

NextClip == CallBound

SpecClip == InitClip /\ [][NextClip]_vars

(***************************************************************************)
(* Red-black invariants of the tree below the root.                        *)
(***************************************************************************)
\* Number of black nodes on every path from `at` down to a missing child;
\* -1 when two paths differ, a red node has a red child, or the walk leaves
\* the occupied keys.
RECURSIVE BlackHeight(_, _, _)
BlackHeight(b, at, fuel) ==
  IF at = NIL THEN 0
  ELSE IF fuel = 0 \/ ~Live(b, at) THEN -1
  ELSE
    LET n == b.nodes[at]
        hl == BlackHeight(b, n.left, fuel - 1)
        hr == BlackHeight(b, n.right, fuel - 1)
        redChild(c) == c # NIL /\ Live(b, c) /\ b.nodes[c].color = RED
    IN IF hl = -1 \/ hr = -1 \/ hl # hr THEN -1
       ELSE IF n.color = RED /\ (redChild(n.left) \/ redChild(n.right)) THEN -1
       ELSE hl + (IF n.color = BLACK THEN 1 ELSE 0)

RootIsBlack(b) == b.root # NIL => (Live(b, b.root) /\ b.nodes[b.root].color = BLACK)

RedBlack(b) == RootIsBlack(b) /\ BlackHeight(b, b.root, Fuel(b)) # -1

\* C1: after init and after every insert_after, insert_before and delete
\* that returned, the tree satisfies the red-black invariants (black root, no
\* red node with a red child, equal black count on all paths).
C1_RedBlackAfterEveryCall == beach.panic = "" => RedBlack(beach)

(***************************************************************************)
(* In-order sequences.                                                     *)
(***************************************************************************)
IndexOf(s, h) == IF \E i \in 1 .. Len(s) : s[i] = h
                 THEN CHOOSE i \in 1 .. Len(s) : s[i] = h ELSE 0

\* s with k put right after index i (i = 0: in front).
InsertAtIndex(s, i, k) == SubSeq(s, 1, i) \o <<k>> \o SubSeq(s, i + 1, Len(s))

RemoveIndex(s, i) == SubSeq(s, 1, i - 1) \o SubSeq(s, i + 1, Len(s))

Occurrences(s, h) == Cardinality({i \in 1 .. Len(s) : s[i] = h})

\* The pointer that follows / precedes h in s, NIL at the end, PANICP when h
\* does not occur exactly once.
NextIn(s, h) ==
  IF Occurrences(s, h) # 1 THEN PANICP
  ELSE IF IndexOf(s, h) = Len(s) THEN NIL ELSE s[IndexOf(s, h) + 1]

PrevIn(s, h) ==
  IF Occurrences(s, h) # 1 THEN PANICP
  ELSE IF IndexOf(s, h) = 1 THEN NIL ELSE s[IndexOf(s, h) - 1]

\* C7: insert_after(h, v) on a live handle returns and puts the new element
\* right after h's element in the in-order sequence, and insert_before(h, v)
\* right before it; all other elements keep their order.
C7_InsertNextToHandle ==
  [][ /\ (last'.op = "insert_after")
         => /\ beach'.panic = ""
            /\ Occurrences(in_order(beach), last'.at) = 1
            /\ in_order(beach') =
                 InsertAtIndex(in_order(beach), IndexOf(in_order(beach), last'.at),
                               SlabNextKey(beach))
      /\ (last'.op = "insert_before")
         => /\ beach'.panic = ""
            /\ Occurrences(in_order(beach), last'.at) = 1
            /\ in_order(beach') =
                 InsertAtIndex(in_order(beach), IndexOf(in_order(beach), last'.at) - 1,
                               SlabNextKey(beach)) ]_vars

\* C8: delete(h) on a live handle returns the value stored at h and removes
\* exactly h's element from the in-order sequence.
C8_DeleteRemovesExactlyHandle ==
  [][ (last'.op = "delete")
        => /\ beach'.panic = ""
           /\ last'.ret = get(beach, last'.at)
           /\ Occurrences(in_order(beach), last'.at) = 1
           /\ in_order(beach') =
                RemoveIndex(in_order(beach), IndexOf(in_order(beach), last'.at)) ]_vars

\* C9: for every live handle, successor and predecessor are the neighbours
\* in the in_order traversal (NIL at the ends), and NIL for a NIL argument.
C9_NeighboursFollowInOrder ==
  beach.panic = "" =>
    /\ successor(beach, NIL) = NIL
    /\ predecessor(beach, NIL) = NIL
    /\ \A h \in DOMAIN beach.nodes :
         /\ successor(beach, h) = NextIn(in_order(beach), h)
         /\ predecessor(beach, h) = PrevIn(in_order(beach), h)

\* C2: the handle a call hands out holds the value given to that call, and
\* every handle keeps its value while it is not itself deleted.
C2_HandlesKeepTheirValue ==
  /\ [](last.op \in {"init", "insert_after", "insert_before"} /\ beach.panic = ""
          => Live(beach, last.ret) /\ get(beach, last.ret) = ValueFor(last.ret))
  /\ [][ \A h \in DOMAIN beach.nodes :
           (beach'.panic = "" /\ ~(last'.op = "delete" /\ last'.at = h))
             => get(beach', h) = get(beach, h) ]_vars

(***************************************************************************)
(* Event queue claims.                                                     *)
(***************************************************************************)
\* C3: after every insert, pop and delete, no event is smaller than the
\* event at its parent index (i - 1) / 2.
C3_HeapProperty ==
  \A i \in 1 .. EQ_len(queue) - 1 :
    ~EventLess(EventAt(queue, i), EventAt(queue, EQ_parent(queue, i)))

\* C4: the index map, the heap array and the arena agree: same handles,
\* each once in the heap, heap[index[h]] = h.
C4_IndexMapConsistent ==
  /\ DOMAIN queue.index = {queue.heap[i] : i \in 1 .. Len(queue.heap)}
  /\ \A i, j \in 1 .. Len(queue.heap) : queue.heap[i] = queue.heap[j] => i = j
  /\ \A h \in DOMAIN queue.index :
       /\ queue.index[h] \in 0 .. Len(queue.heap) - 1
       /\ queue.heap[queue.index[h] + 1] = h
  /\ DOMAIN queue.events = DOMAIN queue.index

\* C4 is met after a delete that returned an event, left two or more events
\* behind and a handle at a heap index other than its own number.
C4_DeleteLeftMovedHandles ==
  /\ qlast.op = "delete"
  /\ qlast.ret.kind = "Site"
  /\ EQ_len(queue) >= 2
  /\ \E h \in DOMAIN queue.index : queue.index[h] # h

\* C5: pop on a non-empty queue returns an event that no remaining event is
\* smaller than; pop on an empty queue returns None and changes nothing.
C5_PopReturnsMinimum ==
  [][ qlast'.op = "pop" =>
        IF EQ_len(queue) = 0
        THEN qlast'.ret = NoEvent /\ queue' = queue
        ELSE /\ qlast'.ret \in {queue.events[h] : h \in DOMAIN queue.events}
             /\ EQ_len(queue') = EQ_len(queue) - 1
             /\ \A h \in DOMAIN queue'.events :
                  ~EventLess(queue'.events[h], qlast'.ret) ]_vars

\* C6: a live handle keeps naming its event through calls on other events;
\* delete of a live handle removes and returns exactly that event, len drops
\* by one and every other event keeps its handle.
C6_HandlesNameTheirEvent ==
  [][ /\ \A h \in DOMAIN queue.events \cap DOMAIN queue'.events :
           queue'.events[h] = queue.events[h]
      /\ (qlast'.op = "insert") =>
           /\ DOMAIN queue'.events = DOMAIN queue.events \cup {qlast'.h}
           /\ qlast'.h \notin DOMAIN queue.events
      /\ (qlast'.op = "delete" /\ qlast'.h \in DOMAIN queue.events) =>
           /\ qlast'.ret = queue.events[qlast'.h]
           /\ DOMAIN queue'.events = DOMAIN queue.events \ {qlast'.h}
           /\ EQ_len(queue') = EQ_len(queue) - 1
           /\ \A h \in DOMAIN queue'.events : EQ_delete(queue', h).ret = queue.events[h]
    ]_vars

\* C6 is met after a delete that returned the event of its handle while three
\* other events stay in the queue.
C6_DeletedOneOfFour ==
  /\ qlast.op = "delete"
  /\ qlast.ret.kind = "Site"
  /\ qlast.ret.id = qlast.h
  /\ qlast.h \notin DOMAIN queue.events
  /\ EQ_len(queue) = 3

(***************************************************************************)
(* Sweep claims.                                                           *)
(***************************************************************************)
\* The handles of the circle events in the queue.
PendingVertexEvents == {h \in DOMAIN queue.events : queue.events[h].kind = "Vertex"}

\* C10: between two events of the sweep the arc-to-event map and the circle
\* events in the queue correspond one to one: the key of an entry is the arc
\* stored in its event, its value is the handle of a circle event still in
\* the queue, and every circle event in the queue has its entry.
C10_OneCircleEventPerArc ==
  pc = "loop" =>
    /\ \A arc \in DOMAIN events_by_beach_segment :
         /\ events_by_beach_segment[arc] \in PendingVertexEvents
         /\ queue.events[events_by_beach_segment[arc]].arc = arc
    /\ \A h \in PendingVertexEvents :
         /\ queue.events[h].arc \in DOMAIN events_by_beach_segment
         /\ events_by_beach_segment[queue.events[h].arc] = h

\* C10 is met between two events when a vertex of the diagram exists, so a
\* circle event was processed, and another circle event is pending.
C10_CircleEventPendingAfterVertex ==
  /\ pc = "loop"
  /\ Len(dcel.vertices) >= 1
  /\ PendingVertexEvents # {}
  /\ DOMAIN events_by_beach_segment # {}

\* C11: the sweep never reaches the abort "Edge already exists", and between
\* two events and at the end the half-edges are one twin pair for each
\* unordered pair of sites that has an entry in halfedges_by_site_pair.
C11_TwinPairCreatedOnce ==
  /\ pc # "Edge already exists"
  /\ pc \in {"loop", "done"} =>
       /\ Len(dcel.halfedges) = Cardinality(DOMAIN halfedges_by_site_pair)
       /\ \A p \in DOMAIN halfedges_by_site_pair :
            /\ <<p[2], p[1]>> \in DOMAIN halfedges_by_site_pair
            /\ halfedges_by_site_pair[<<p[2], p[1]>>]
                 = get_twin(dcel, halfedges_by_site_pair[p])
       /\ \A p, q \in DOMAIN halfedges_by_site_pair :
            halfedges_by_site_pair[p] = halfedges_by_site_pair[q] => p = q

\* C11 is met when a run of four sites has ended after a circle event made
\* the twin pair of the two outer sites.
C11_FourSitesSweptWithVertex ==
  /\ pc = "done"
  /\ Len(sites) = 4
  /\ Len(dcel.vertices) >= 1
  /\ Len(dcel.halfedges) >= 8

\* C12: the sweep of no sites returns without a panic a Dcel with no vertex,
\* no half-edge and no face slot, and the beach line is never initialised;
\* clipping that Dcel leaves it empty.
C12_EmptyInputEmptyDiagram ==
  sites = << >> =>
    /\ pc \in {"new", "done", "bounded"}
    /\ dcel.vertices = << >>
    /\ dcel.halfedges = << >>
    /\ dcel.faces = << >>
    /\ beach = BeachLine_new
    /\ queue = EventQueue_new

\* C12 is met when run has returned for the empty list of sites.
C12_EmptyRunReturned == sites = << >> /\ pc = "done"

\* C18: a call of init succeeds exactly when the tree holds no node (also
\* when every node it held was deleted again) and then leaves one black
\* root without parent or children; on a tree that has a root it panics and
\* leaves the nodes and the root as they were.
C18_InitOnlyOnEmptyTree ==
  [][last'.op = "init" =>
       IF DOMAIN beach.nodes = {}
       THEN /\ beach'.panic = ""
            /\ DOMAIN beach'.nodes = {beach'.root}
            /\ beach'.nodes[beach'.root].color = BLACK
            /\ beach'.nodes[beach'.root].parent = NIL
            /\ beach'.nodes[beach'.root].left = NIL
            /\ beach'.nodes[beach'.root].right = NIL
       ELSE /\ beach.root # NIL
            /\ beach'.panic = "Tried initializing a non-empty beachline"
            /\ beach'.nodes = beach.nodes
            /\ beach'.root = beach.root]_vars

\* init has succeeded on a tree whose nodes were all deleted again.
C18_InitAfterDeletingAll ==
  /\ last.op = "init" /\ beach.panic = "" /\ ndel >= 2
  /\ Cardinality(DOMAIN beach.nodes) = 1

\* C14: bound(segment, rectangle) is Inside exactly when both ends lie in
\* the closed rectangle, Outside exactly when neither does (also when the
\* segment crosses the rectangle), and Intersect exactly when one end does,
\* whichever end it is.
C14_ClassifiedByEndpoints ==
  clipResult # NoResult =>
    LET In(x, y) == /\ NumCmp(x, clipBox.min_x) >= 0 /\ NumCmp(x, clipBox.max_x) <= 0
                    /\ NumCmp(y, clipBox.min_y) >= 0 /\ NumCmp(y, clipBox.max_y) <= 0
        s == In(clipSegment.start_x, clipSegment.start_y)
        e == In(clipSegment.end_x, clipSegment.end_y)
    IN /\ clipResult.kind \in {"Inside", "Outside", "Intersect"}
       /\ clipResult.kind = "Inside" <=> (s /\ e)
       /\ clipResult.kind = "Outside" <=> (~s /\ ~e)
       /\ clipResult.kind = "Intersect" <=> (s # e)

\* A segment that crosses the rectangle from left to right with both ends
\* outside was reported as Outside.
C14_CrossingSegmentOutside ==
  /\ clipResult.kind = "Outside"
  /\ NumCmp(clipSegment.start_x, clipBox.min_x) < 0
  /\ NumCmp(clipSegment.end_x, clipBox.max_x) > 0
  /\ clipSegment.start_y = clipSegment.end_y
  /\ NumCmp(clipSegment.start_y, clipBox.min_y) > 0
  /\ NumCmp(clipSegment.start_y, clipBox.max_y) < 0

\* C15: the point of an Intersect result lies on the segment and on the
\* boundary of the rectangle, and side names the side the point is on:
\* Left x = min_x, Right x = max_x, Bottom y = min_y, Top y = max_y.
C15_IntersectOnNamedSide ==
  clipResult.kind = "Intersect" =>
    LET x == clipResult.x
        y == clipResult.y
        dx == NumSub(clipSegment.end_x, clipSegment.start_x)
        dy == NumSub(clipSegment.end_y, clipSegment.start_y)
        Between(a, v, b) == \/ NumCmp(a, v) <= 0 /\ NumCmp(v, b) <= 0
                            \/ NumCmp(b, v) <= 0 /\ NumCmp(v, a) <= 0
    IN /\ x.d # 0 /\ y.d # 0
       /\ Between(clipBox.min_x, x, clipBox.max_x)
       /\ Between(clipBox.min_y, y, clipBox.max_y)
       /\ Between(clipSegment.start_x, x, clipSegment.end_x)
       /\ Between(clipSegment.start_y, y, clipSegment.end_y)
       /\ NumCmp(NumMul(NumSub(x, clipSegment.start_x), dy),
                 NumMul(NumSub(y, clipSegment.start_y), dx)) = 0
       /\ clipResult.side \in {"Left", "Right", "Bottom", "Top"}
       /\ clipResult.side = "Left" => NumCmp(x, clipBox.min_x) = 0
       /\ clipResult.side = "Right" => NumCmp(x, clipBox.max_x) = 0
       /\ clipResult.side = "Bottom" => NumCmp(y, clipBox.min_y) = 0
       /\ clipResult.side = "Top" => NumCmp(y, clipBox.max_y) = 0

\* The half-edges reached from the last one of w by following next at most
\* k times, appended to w; the walk stops at a NIL next.
RECURSIVE FaceWalk(_, _, _)
FaceWalk(d, w, k) ==
  IF k = 0 \/ w[Len(w)] + 1 \notin DOMAIN d.halfedges THEN w
  ELSE FaceWalk(d, Append(w, d.halfedges[w[Len(w)] + 1].next), k - 1)

\* The origins, in next order, of the half-edges of the face whose
\* representative is f, when the walk w from f returns to f past half-edges
\* that all have an origin; the empty list otherwise.
ClosedPolygon(d, f, w) ==
  LET back == {k \in 2 .. Len(w) :
                 /\ w[k] = f
                 /\ \A j \in 1 .. k - 1 : d.halfedges[w[j] + 1].origin # NIL}
  IN IF f = NIL \/ back = {} THEN << >>
     ELSE [k \in 1 .. (CHOOSE k \in back : \A j \in back : k <= j) - 1 |->
             d.vertices[d.halfedges[w[k] + 1].origin + 1]]

\* C16: get_polygons returns, without panic and without walking for ever,
\* one entry per site; entry i is read from the face slot of site i, which
\* after run holds a half-edge of that site; the entry is the list of the
\* origins in next order when the walk from the representative returns to
\* it, and empty when it meets a NIL next, an unset origin or a NIL slot.
C16_OnePolygonPerSite ==
  gotPolygons # NoPolygons =>
    /\ gotPolygons.panic = ""
    /\ Len(gotPolygons.polygons) = Len(sites)
    /\ \A i \in 1 .. Len(sites) :
         \A w \in {FaceWalk(dcel, <<dcel.faces[i]>>, Len(dcel.halfedges))} :
           gotPolygons.polygons[i] = ClosedPolygon(dcel, dcel.faces[i], w)
    /\ pc = "done" =>
         \A i \in 1 .. Len(sites) :
           dcel.faces[i] # NIL =>
             \E p \in DOMAIN halfedges_by_site_pair :
               p[1] = i - 1 /\ halfedges_by_site_pair[p] = dcel.faces[i]

\* get_polygons has returned a closed polygon and an empty entry for the
\* Dcel of run.
C16_ClosedAndOpenFaces ==
  /\ pc = "done" /\ gotPolygons.panic = ""
  /\ \E i, j \in 1 .. Len(gotPolygons.polygons) :
        Len(gotPolygons.polygons[i]) >= 3 /\ gotPolygons.polygons[j] = << >>

\* C17: in the Dcel of the sweep, while it runs and when it is done, and in
\* the Dcel that clipping leaves, the half-edges come in pairs at the
\* indices 2k and 2k + 1 that are each other's twin, so every half-edge has
\* a twin, twin(twin(e)) = e and twin(e) # e.
C17_TwinsInAdjacentPairs ==
  /\ Len(dcel.halfedges) % 2 = 0
  /\ \A e \in 0 .. Len(dcel.halfedges) - 1 :
        /\ get_twin(dcel, e) = (IF e % 2 = 0 THEN e + 1 ELSE e - 1)
        /\ get_twin(dcel, get_twin(dcel, e)) = e
        /\ get_twin(dcel, e) # e

\* Clipping has added half-edges to the ones of the sweep.
C17_ClippingAddedTwins ==
  /\ pc = "bounded"
  /\ Len(dcel.halfedges) > Cardinality(DOMAIN halfedges_by_site_pair)
  /\ Cardinality(DOMAIN halfedges_by_site_pair) >= 6

\* C13: a call of bound that returns leaves the slot of a face NIL exactly
\* when no half-edge met from the face's representative by following next,
\* in the Dcel it was called on, has its origin inside the closed rectangle;
\* so a face with such a half-edge keeps a slot, open or not.
C13_RemovedIffNoOriginInside ==
  [][(pc = "done" /\ pc' = "bounded") =>
       \A i \in 1 .. Len(dcel.faces) :
         \A w \in {FaceWalk(dcel, <<dcel.faces[i]>>, Len(dcel.halfedges))} :
           dcel'.faces[i] = NIL <=>
             ~ \E k \in 1 .. Len(w) :
                 /\ w[k] + 1 \in DOMAIN dcel.halfedges
                 /\ dcel.halfedges[w[k] + 1].origin # NIL
                 /\ \A v \in {dcel.vertices[dcel.halfedges[w[k] + 1].origin + 1]} :
                      /\ NumCmp(v.x, clipBox'.min_x) >= 0 /\ NumCmp(v.x, clipBox'.max_x) <= 0
                      /\ NumCmp(v.y, clipBox'.min_y) >= 0 /\ NumCmp(v.y, clipBox'.max_y) <= 0]_vars

\* C19: the sweep over (50,50), (70,60), (55,70) does not panic, and the
\* Dcel it returns has a face for each site and exactly one vertex, which
\* is the origin of one half-edge of each of the three twin pairs of the
\* site pairs and is at the same distance from the three sites.
C19_ThreeSitesOneVertex ==
  sites = SitesOf(ThreeSites) =>
    /\ pc \in {"new", "loop", "done", "bounded", "bound index", "bound diverge"}
    /\ pc = "done" =>
         /\ Len(dcel.vertices) = 1
         /\ Len(dcel.faces) = 3 /\ \A i \in 1 .. 3 : dcel.faces[i] # NIL
         /\ Len(dcel.halfedges) = 6
         /\ \A a, b \in 0 .. 2 :
              a < b =>
                /\ <<a, b>> \in DOMAIN halfedges_by_site_pair
                /\ <<b, a>> \in DOMAIN halfedges_by_site_pair
                /\ halfedges_by_site_pair[<<b, a>>] = get_twin(dcel, halfedges_by_site_pair[<<a, b>>])
                /\ Cardinality({e \in {halfedges_by_site_pair[<<a, b>>], halfedges_by_site_pair[<<b, a>>]} :
                                  dcel.halfedges[e + 1].origin = 0}) = 1
         /\ \A i, j \in 1 .. 3 :
              NumCmp(NumAdd(NumMul(NumSub(dcel.vertices[1].x, sites[i].x), NumSub(dcel.vertices[1].x, sites[i].x)),
                            NumMul(NumSub(dcel.vertices[1].y, sites[i].y), NumSub(dcel.vertices[1].y, sites[i].y))),
                     NumAdd(NumMul(NumSub(dcel.vertices[1].x, sites[j].x), NumSub(dcel.vertices[1].x, sites[j].x)),
                            NumMul(NumSub(dcel.vertices[1].y, sites[j].y), NumSub(dcel.vertices[1].y, sites[j].y)))) = 0

\* run has returned the Dcel of the three sites, with its vertex.
C19_ThreeSitesSwept ==
  sites = SitesOf(ThreeSites) /\ pc = "done" /\ Len(dcel.vertices) = 1

\* C20: the sweep over the five-site cross and the clipping to
\* [-10,10] x [-10,10] do not panic, and get_polygons then returns five
\* polygons of at least three vertices, each with its own site strictly on
\* one side of all its edges; the polygon of the site (0,0) has the four
\* corners (1/2,1/2), (1/2,-1/2), (-1/2,1/2) and (-1/2,-1/2).
C20_CrossGivesFiveClosedPolygons ==
  sites = SitesOf(FiveSiteCross) =>
    /\ pc \in {"new", "loop", "done", "bounded"}
    /\ (/\ pc = "bounded" /\ gotPolygons # NoPolygons
        /\ clipBox = BoundingBox_new(NumInt(-10), NumInt(-10), NumInt(10), NumInt(10))) =>
         /\ gotPolygons.panic = ""
         /\ Len(gotPolygons.polygons) = 5
         /\ \A i \in 1 .. 5 :
              \A p \in {gotPolygons.polygons[i]} :
                /\ Len(p) >= 3
                /\ \E sg \in {-1, 1} :
                     \A k \in 1 .. Len(p) :
                       \A q \in {p[(k % Len(p)) + 1]} :
                         NumCmp(NumMul(NumSub(q.x, p[k].x), NumSub(sites[i].y, p[k].y)),
                                NumMul(NumSub(q.y, p[k].y), NumSub(sites[i].x, p[k].x))) = sg
         /\ Len(gotPolygons.polygons[2]) = 4
         /\ {<<v.x, v.y>> : v \in {gotPolygons.polygons[2][k] : k \in 1 .. Len(gotPolygons.polygons[2])}}
              = {<<Num(sx, 0, 0, 2), Num(sy, 0, 0, 2)>> : sx, sy \in {-1, 1}}

\* C29: a call of delete on a live handle never panics, whatever calls of
\* init, insert_after, insert_before and delete on live handles came before.
C29_DeleteNeverAborts ==
  [][last'.op = "delete" => beach'.panic = ""]_vars

\* C30: in every tree that the calls leave without a panic the root has no
\* parent, a child of n has n as its parent, a node with a parent is a child
\* of it, and the walk from the root meets every live node exactly once.
C30_LinksConsistent ==
  beach.panic = "" =>
    /\ beach.root # NIL => (Live(beach, beach.root) /\ beach.nodes[beach.root].parent = NIL)
    /\ beach.root = NIL => DOMAIN beach.nodes = {}
    /\ \A n \in DOMAIN beach.nodes :
          /\ beach.nodes[n].left # NIL =>
                (Live(beach, beach.nodes[n].left) /\ beach.nodes[beach.nodes[n].left].parent = n)
          /\ beach.nodes[n].right # NIL =>
                (Live(beach, beach.nodes[n].right) /\ beach.nodes[beach.nodes[n].right].parent = n)
          /\ beach.nodes[n].parent # NIL =>
                /\ Live(beach, beach.nodes[n].parent)
                /\ \/ beach.nodes[beach.nodes[n].parent].left = n
                   \/ beach.nodes[beach.nodes[n].parent].right = n
          /\ beach.nodes[n].parent = NIL => beach.root = n
    /\ \A w \in {in_order(beach)} :
          /\ Len(w) = Cardinality(DOMAIN beach.nodes)
          /\ {w[k] : k \in 1 .. Len(w)} = DOMAIN beach.nodes


\* The mirror image of a tree: every node's left and right child exchanged.
Mirror(b) ==
  [b EXCEPT !.nodes = [k \in DOMAIN b.nodes |->
                        [b.nodes[k] EXCEPT !.left = b.nodes[k].right,
                                           !.right = b.nodes[k].left]]]

\* C28: deleting a black leaf that is the right child of a black parent in a
\* red-black tree gives the mirror image of deleting the same node, then a
\* left child, from the mirrored tree; in particular one panics only when
\* the other does.
C28_DeleteRepairMirrored ==
  [][(/\ last'.op = "delete"
      /\ RedBlack(beach)
      /\ Live(beach, last'.at)
      /\ beach.nodes[last'.at].left = NIL /\ beach.nodes[last'.at].right = NIL
      /\ beach.nodes[last'.at].color = BLACK
      /\ beach.nodes[last'.at].parent # NIL
      /\ beach.nodes[beach.nodes[last'.at].parent].color = BLACK
      /\ beach.nodes[beach.nodes[last'.at].parent].right = last'.at)
     => \A m \in {delete(Mirror(beach), last'.at, Fuel(beach)).b} :
           /\ m.panic = beach'.panic
           /\ m.panic = "" => m = Mirror(beach')]_vars


\* The collinear input of three sites on the line y = 0.
CollinearSites == << <<0, 0>>, <<1, 0>>, <<2, 0>> >>

\* C21: the sweep of the sites (0,0), (1,0), (2,0) does not panic, never has
\* a circle event in its queue or its map, creates no vertex, and returns
\* exactly two twin pairs of half-edges, those of the sites 0, 1 and 1, 2.
C21_CollinearTwoBisectors ==
  (sites = SitesOf(CollinearSites) /\ clipBox = NoBox) =>
    /\ pc \in {"new", "loop", "done"}
    /\ PendingVertexEvents = {}
    /\ events_by_beach_segment = << >>
    /\ dcel.vertices = << >>
    /\ pc = "done" =>
         /\ Len(dcel.halfedges) = 4
         /\ DOMAIN halfedges_by_site_pair = {<<0, 1>>, <<1, 0>>, <<1, 2>>, <<2, 1>>}


\* Some three of the sites are not on one line.
NotAllCollinear ==
  \E i, j, k \in 1 .. Len(sites) :
    (sites[i].x.a - sites[j].x.a) * (sites[j].y.a - sites[k].y.a)
      # (sites[j].x.a - sites[k].x.a) * (sites[i].y.a - sites[j].y.a)

\* The number of closed faces that get_polygons has returned.
ClosedFaces == Cardinality({i \in DOMAIN gotPolygons.polygons : gotPolygons.polygons[i] # << >>})

\* C22: when run has returned the Dcel of sites that are not all on one line,
\* the number of its vertices plus one is the number of the closed polygons
\* that get_polygons returns for it.
C22_VerticesPlusOneIsClosedFaces ==
  (pc = "done" /\ gotPolygons # NoPolygons /\ NotAllCollinear) =>
    Len(dcel.vertices) + 1 = ClosedFaces

\* C22, amended: when run has returned the Dcel of one or more sites, the
\* vertices, the edges (twin pairs of half-edges) and the faces (one per
\* site) satisfy Euler's relation vertices - edges + faces = 1.
C22_EulerVerticesEdgesFaces ==
  (pc = "done" /\ Len(sites) >= 1) =>
    Len(dcel.vertices) + Len(sites) = Len(dcel.halfedges) \div 2 + 1

\* C22 is met when run has returned for four sites, not all on one line, with
\* two vertices or more, and get_polygons was called.
C22_FourSitesTwoVertices ==
  /\ pc = "done" /\ gotPolygons # NoPolygons /\ NotAllCollinear
  /\ Len(sites) = 4
  /\ Len(dcel.vertices) >= 2


\* The square of the distance between the vertex v and the site s.
Dist2(v, s) ==
  NumAdd(NumMul(NumSub(v.x, s.x), NumSub(v.x, s.x)),
         NumMul(NumSub(v.y, s.y), NumSub(v.y, s.y)))

\* C23: while the sweep runs and when it has returned, the origin of every
\* half-edge made for a pair of sites is as far from the one site as from
\* the other and no nearer to any third site. The vertex of a circle event
\* is the origin of a half-edge of each pair of its three sites, so it is
\* their circumcentre.
C23_VerticesOnBisectors ==
  pc \in {"loop", "done"} =>
    \A p \in DOMAIN halfedges_by_site_pair :
      \A o \in {dcel.halfedges[halfedges_by_site_pair[p] + 1].origin} :
        o # NIL =>
          \A v \in {dcel.vertices[o + 1]} :
            /\ NumCmp(Dist2(v, sites[p[1] + 1]), Dist2(v, sites[p[2] + 1])) = 0
            /\ \A k \in 1 .. Len(sites) :
                 NumCmp(Dist2(v, sites[k]), Dist2(v, sites[p[1] + 1])) >= 0


\* The circle event that create_vertex_event computes for the arc m from the
\* sites of its neighbours l and r in the beach line b.
EventOfTriple(b, l, m, r) ==
  LET c == find_center(get(b, l).x.a, get(b, l).y.a, get(b, m).x.a, get(b, m).y.a,
                       get(b, r).x.a, get(b, r).y.a)
  IN VertexEvent(m, c.cx, NumAdd(c.cy, c.rad), c.rad)

\* C24: the sweep never reaches the abort "Creating an already-existing
\* vertex event", and between two events every circle event that is pending
\* for an arc m is the one computed from the sites of the arcs that are now
\* the predecessor and the successor of m in the beach line.
C24_PendingEventsOfCurrentNeighbours ==
  /\ pc # "Creating an already-existing vertex event"
  /\ pc = "loop" =>
       \A m \in DOMAIN events_by_beach_segment :
         \A l \in {predecessor(beach, m)} : \A r \in {successor(beach, m)} :
           /\ Live(beach, m) /\ Live(beach, l) /\ Live(beach, r)
           /\ events_by_beach_segment[m] \in DOMAIN queue.events
           /\ queue.events[events_by_beach_segment[m]] = EventOfTriple(beach, l, m, r)


\* C24 is met between two events when a vertex was made, so a circle event
\* removed an arc, and two arcs have a pending circle event.
C24_TwoPendingAfterVertex ==
  /\ pc = "loop"
  /\ Len(dcel.vertices) >= 1
  /\ Cardinality(DOMAIN events_by_beach_segment) >= 2


\* The turn of the loop of run that is about to be taken pops a site event.
SiteEventNext == pc = "loop" /\ EQ_len(queue) > 0 /\ EQ_pop(queue).ret.kind = "Site"

\* C25: a site event for the site s does not panic; with A the arc that
\* search finds for s, the beach line afterwards is the one before with A
\* replaced by A, n1, n2, where n1 and n2 are new handles, n1 holds s and A
\* and n2 hold the site A held; every other arc keeps its site and its
\* pending circle event; n1 has no circle event, and the event of A, if it
\* has one, is the one of its new neighbours.
C25_SiteEventSplitsArc ==
  [][SiteEventNext =>
       \A s \in {EQ_pop(queue).ret} : \A A \in {search(beach, s.x.a, s.y.a)} :
         \A io \in {in_order(beach)} :
           /\ pc' = "loop"
           /\ \E k \in 1 .. Len(io) : \E n1, n2 \in DOMAIN beach'.nodes \ DOMAIN beach.nodes :
                /\ io[k] = A
                /\ n1 # n2
                /\ in_order(beach') = SubSeq(io, 1, k) \o <<n1, n2>> \o SubSeq(io, k + 1, Len(io))
                /\ get(beach', n1) = [x |-> s.x, y |-> s.y, id |-> s.id]
                /\ get(beach', n2) = get(beach, A)
                /\ \A m \in DOMAIN beach.nodes : get(beach', m) = get(beach, m)
                /\ n1 \notin DOMAIN events_by_beach_segment'
                /\ \A m \in DOMAIN beach.nodes \ {A} :
                     /\ m \in DOMAIN events_by_beach_segment' <=> m \in DOMAIN events_by_beach_segment
                     /\ m \in DOMAIN events_by_beach_segment =>
                          queue'.events[events_by_beach_segment'[m]]
                            = queue.events[events_by_beach_segment[m]]
                /\ A \in DOMAIN events_by_beach_segment' =>
                     queue'.events[events_by_beach_segment'[A]]
                       = EventOfTriple(beach', predecessor(beach', A), A, n1)]_vars


\* The turn of the loop of run that is about to be taken pops a circle event.
VertexEventNext == pc = "loop" /\ EQ_len(queue) > 0 /\ EQ_pop(queue).ret.kind = "Vertex"

\* C26: a circle event for the arc M with the predecessor L and the successor
\* R does not panic; it takes M, and nothing else, out of the beach line; it
\* adds one vertex v and one twin pair, keyed by the sites (r, l) and (l, r)
\* of R and L; with XY the half-edge keyed by the sites (x, y), the origin of
\* ML, RM and LR is v and next(LM) = LR, next(MR) = ML, next(RL) = RM, so a
\* next link joins two half-edges whose key starts with the same site.
C26_CircleEventLinksVertex ==
  [][VertexEventNext =>
       \A M \in {EQ_pop(queue).ret.arc} :
         \A L \in {predecessor(beach, M)} : \A R \in {successor(beach, M)} :
           /\ pc' = "loop"
           /\ Live(beach, M) /\ Live(beach, L) /\ Live(beach, R)
           /\ in_order(beach') = SelectSeq(in_order(beach), LAMBDA h : h # M)
           /\ DOMAIN beach'.nodes = DOMAIN beach.nodes \ {M}
           /\ \A h \in DOMAIN beach'.nodes : get(beach', h) = get(beach, h)
           /\ Len(dcel'.vertices) = Len(dcel.vertices) + 1
           /\ Len(dcel'.halfedges) = Len(dcel.halfedges) + 2
           /\ \A l \in {get(beach, L).id} : \A m \in {get(beach, M).id} : \A r \in {get(beach, R).id} :
                \A hp \in {halfedges_by_site_pair'} : \A v \in {Len(dcel.vertices)} :
                  /\ DOMAIN hp = DOMAIN halfedges_by_site_pair \cup {<<r, l>>, <<l, r>>}
                  /\ <<r, l>> \notin DOMAIN halfedges_by_site_pair
                  /\ <<l, r>> \notin DOMAIN halfedges_by_site_pair
                  /\ \A q \in DOMAIN halfedges_by_site_pair : hp[q] = halfedges_by_site_pair[q]
                  /\ hp[<<r, l>>] = Len(dcel.halfedges)
                  /\ hp[<<l, r>>] = Len(dcel.halfedges) + 1
                  /\ get_twin(dcel', hp[<<r, l>>]) = hp[<<l, r>>]
                  /\ dcel'.halfedges[hp[<<m, l>>] + 1].origin = v
                  /\ dcel'.halfedges[hp[<<r, m>>] + 1].origin = v
                  /\ dcel'.halfedges[hp[<<l, r>>] + 1].origin = v
                  /\ dcel'.halfedges[hp[<<l, m>>] + 1].next = hp[<<l, r>>]
                  /\ dcel'.halfedges[hp[<<m, r>>] + 1].next = hp[<<m, l>>]
                  /\ dcel'.halfedges[hp[<<r, l>>] + 1].next = hp[<<r, m>>]]_vars


\* The arc m of the beach line b has a predecessor and a successor, the
\* orientation value of the three sites is not greater than 0 and they are
\* not on one line.
ShouldSchedule(b, m) ==
  /\ Live(b, m)
  /\ \A l \in {predecessor(b, m)} : \A r \in {successor(b, m)} :
       /\ Live(b, l) /\ Live(b, r)
       /\ \A ls \in {get(b, l)} : \A ms \in {get(b, m)} : \A rs \in {get(b, r)} :
            /\ (ms.y.a - ls.y.a) * (rs.x.a - ms.x.a)
                 - (rs.y.a - ms.y.a) * (ms.x.a - ls.x.a) <= 0
            /\ (ls.x.a - ms.x.a) * (ms.y.a - rs.y.a)
                 # (ms.x.a - rs.x.a) * (ls.y.a - ms.y.a)

\* The event e is the circle event of the arc m of b: it names m, the point
\* (e.x, e.y - e.rad) is as far from the site of m as from the sites of its
\* neighbours, and e.rad is that distance.
IsCircleEventOf(e, b, m) ==
  /\ e.kind = "Vertex" /\ e.arc = m
  /\ \A c \in {[x |-> e.x, y |-> NumSub(e.y, e.rad)]} :
       /\ NumCmp(Dist2(c, get(b, m)), Dist2(c, get(b, predecessor(b, m)))) = 0
       /\ NumCmp(Dist2(c, get(b, m)), Dist2(c, get(b, successor(b, m)))) = 0
       /\ e.rad.a = 0 /\ e.rad.b > 0
       /\ NumCmp(Dist2(c, get(b, m)), Num(e.rad.b * e.rad.b * e.rad.r, 0, 0, e.rad.d * e.rad.d)) = 0

\* The arcs that the turn about to be taken passes to create_vertex_event:
\* the arc found and what the second insert_after returns, or the two
\* neighbours of the arc of the circle event.
ArcsRescheduled ==
  IF SiteEventNext
  THEN LET s == EQ_pop(queue).ret
           A == search(beach, s.x.a, s.y.a)
           r1 == insert_after(beach, A, [x |-> s.x, y |-> s.y, id |-> s.id], Fuel(beach))
       IN {A, insert_after(r1.b, r1.ret, get(r1.b, A), Fuel(r1.b)).ret}
  ELSE {predecessor(beach, EQ_pop(queue).ret.arc), successor(beach, EQ_pop(queue).ret.arc)}

C31_CircleEventArcIsLive ==
  [][VertexEventNext =>
       \A M \in {EQ_pop(queue).ret.arc} :
         \A L \in {predecessor(beach, M)} : \A R \in {successor(beach, M)} :
           /\ Live(beach, M) /\ Live(beach, L) /\ Live(beach, R)
           /\ EQ_pop(queue).ret = EventOfTriple(beach, L, M, R)
           /\ <<get(beach, L).id, get(beach, M).id>> \in DOMAIN halfedges_by_site_pair
           /\ <<get(beach, M).id, get(beach, R).id>> \in DOMAIN halfedges_by_site_pair
           /\ pc' = "loop"]_vars


\* C32: for every list of sites the queue of the sweep becomes empty and run
\* returns the Dcel.
C32_RunReturns == <>(pc = "done")


\* C33: while the sweep runs and when it has returned, every half-edge e
\* whose next is set ends where next(e) starts: the origin of next(e) is set
\* and is the origin of the twin of e.
C33_NextStartsAtTwinOrigin ==
  pc \in {"loop", "done"} =>
    \A e \in 1 .. Len(dcel.halfedges) :
      \A n \in {dcel.halfedges[e].next} :
        n # NIL =>
          /\ n + 1 \in DOMAIN dcel.halfedges
          /\ dcel.halfedges[n + 1].origin # NIL
          /\ dcel.halfedges[n + 1].origin = dcel.halfedges[get_twin(dcel, e - 1) + 1].origin

\* C33 is met when run has returned a Dcel with two vertices or more and a
\* half-edge whose next has a next.
C33_ChainOfTwoNexts ==
  /\ pc = "done"
  /\ Len(dcel.vertices) >= 2
  /\ \E e \in 1 .. Len(dcel.halfedges) :
        /\ dcel.halfedges[e].next # NIL
        /\ dcel.halfedges[dcel.halfedges[e].next + 1].next # NIL


\* C34: when run has returned for two sites or more, the slot of every site
\* in the face table holds the index of a half-edge that is keyed with that
\* site first; and a slot that is set keeps its value while the sweep runs.
C34_FaceSlotsNameOwnHalfEdges ==
  /\ []((pc = "done" /\ Len(sites) >= 2) =>
          /\ Len(dcel.faces) = Len(sites)
          /\ \A i \in 1 .. Len(sites) :
               /\ dcel.faces[i] \in 0 .. Len(dcel.halfedges) - 1
               /\ \E p \in DOMAIN halfedges_by_site_pair :
                    p[1] = i - 1 /\ halfedges_by_site_pair[p] = dcel.faces[i])
  /\ [][pc' \in {"loop", "done"} =>
          \A i \in 1 .. Len(dcel.faces) :
            dcel.faces[i] # NIL => dcel'.faces[i] = dcel.faces[i]]_vars

\* C34 is met when run has returned for four sites after a circle event, so
\* that create_halfedges was called for sites whose slots were set before.
C34_SlotsKeptThroughCircleEvent ==
  /\ pc = "done"
  /\ Len(sites) = 4
  /\ Len(dcel.vertices) >= 1
  /\ \A i \in 1 .. 4 : dcel.faces[i] # NIL


\* C35: a call of delete with a handle that names no event returns None and
\* leaves the queue as it is; and a handle whose event was popped or deleted
\* before a call of insert, pop or delete still deletes nothing after it:
\* delete with it returns None and removes no event.
C35_StaleHandleDeletesNothing ==
  [][/\ (qlast'.op = "delete" /\ qlast'.h \notin DOMAIN queue.events) =>
          (qlast'.ret = NoEvent /\ queue' = queue)
     /\ \A k \in 1 .. Len(queue.free) :
          \A r \in {EQ_delete(queue', queue.free[k])} :
            r.ret = NoEvent /\ r.q = queue']_vars


(***************************************************************************)
(* corners_between as a walk round the rectangle.                          *)
(***************************************************************************)
Sides == {"Left", "Right", "Top", "Bottom"}

\* The point p = <<x, y>> lies on the named side of bbox, max_y being Top.
OnSide(p, side, bbox) ==
  CASE side = "Left" -> NumCmp(p[1], bbox.min_x) = 0
    [] side = "Right" -> NumCmp(p[1], bbox.max_x) = 0
    [] side = "Top" -> NumCmp(p[2], bbox.max_y) = 0
    [] side = "Bottom" -> NumCmp(p[2], bbox.min_y) = 0

\* Twice the vector from the centre of bbox to p, and to the middle of a side.
FromCentre(p, bbox) == <<NumSub(NumAdd(p[1], p[1]), NumAdd(bbox.min_x, bbox.max_x)), NumSub(NumAdd(p[2], p[2]), NumAdd(bbox.min_y, bbox.max_y))>>

MiddleOf(side, bbox) ==
  CASE side = "Left" -> <<NumSub(bbox.min_x, bbox.max_x), Zero>>
    [] side = "Right" -> <<NumSub(bbox.max_x, bbox.min_x), Zero>>
    [] side = "Top" -> <<Zero, NumSub(bbox.max_y, bbox.min_y)>>
    [] side = "Bottom" -> <<Zero, NumSub(bbox.min_y, bbox.max_y)>>

\* Seen from the centre, v lies to the left of u (y pointing up).
TurnsLeft(u, v) == FLess(Zero, NumSub(NumMul(u[1], v[2]), NumMul(u[2], v[1])))

\* The walk from the middle of side1 over the corners to the middle of side2.
WalkBetween(side1, side2, cs, bbox) == <<MiddleOf(side1, bbox)>> \o [k \in 1 .. Len(cs) |-> FromCentre(cs[k], bbox)] \o <<MiddleOf(side2, bbox)>>

\* C36: for every ordered pair of distinct sides of the rectangle
\* corners_between returns one to three distinct corners of the rectangle, the
\* first on side1, the last on side2, each two consecutive ones on a common
\* side, and every walk side1, corners, side2 turns the same way round the
\* centre (to the left, y pointing up); for side1 = side2 it returns no corner.
C36_CornersBetweenWalkOneWay ==
  \A side1, side2 \in Sides :
    \A cs \in {corners_between(side1, side2, clipBox)} :
      IF side1 = side2 THEN cs = << >>
      ELSE /\ Len(cs) \in 1 .. 3
           /\ \A i, j \in 1 .. Len(cs) : i # j => cs[i] # cs[j]
           /\ \A i \in 1 .. Len(cs) :
                /\ OnSide(cs[i], "Left", clipBox) \/ OnSide(cs[i], "Right", clipBox)
                /\ OnSide(cs[i], "Top", clipBox) \/ OnSide(cs[i], "Bottom", clipBox)
           /\ OnSide(cs[1], side1, clipBox)
           /\ OnSide(cs[Len(cs)], side2, clipBox)
           /\ \A i \in 1 .. Len(cs) - 1 :
                \E s \in Sides : OnSide(cs[i], s, clipBox) /\ OnSide(cs[i + 1], s, clipBox)
           /\ \A w \in {WalkBetween(side1, side2, cs, clipBox)} :
                \A i \in 1 .. Len(w) - 1 : TurnsLeft(w[i], w[i + 1])

\* bound has cut a segment at a side of a rectangle that is not a square, and
\* from that side three corners lead to one of the other sides.
C36_ThreeCornersFromCutSide ==
  /\ clipResult.kind = "Intersect"
  /\ NumCmp(NumSub(clipBox.max_x, clipBox.min_x), NumSub(clipBox.max_y, clipBox.min_y)) # 0
  /\ \E side2 \in Sides : Len(corners_between(clipResult.side, side2, clipBox)) = 3

(***************************************************************************)
(* The faces that bound keeps.                                             *)
(***************************************************************************)
\* The vertex v lies inside or on the rectangle bbox.
InBox(v, bbox) ==
  /\ NumCmp(v.x, bbox.min_x) >= 0 /\ NumCmp(v.x, bbox.max_x) <= 0
  /\ NumCmp(v.y, bbox.min_y) >= 0 /\ NumCmp(v.y, bbox.max_y) <= 0

\* C38: after a call of bound that returns, every face whose slot is not NIL
\* is closed, following next from its representative leads back to it past
\* half-edges that all have an origin, and every vertex on that walk lies
\* inside or on the rectangle.
C38_KeptFacesClosedInBox ==
  pc = "bounded" =>
    \A i \in 1 .. Len(dcel.faces) :
      dcel.faces[i] # NIL =>
        \A w \in {FaceWalk(dcel, <<dcel.faces[i]>>, Len(dcel.halfedges))} :
          \A polygon \in {ClosedPolygon(dcel, dcel.faces[i], w)} :
            /\ polygon # << >>
            /\ \A k \in 1 .. Len(polygon) : InBox(polygon[k], clipBox)

(***************************************************************************)
(* A closed face that leaves the rectangle and comes back.                 *)
(***************************************************************************)
\* The half-edges of the face with the representative f, in next order,
\* when the walk from f returns to f; the empty list otherwise.
CycleOf(d, f) ==
  LET w == FaceWalk(d, <<f>>, Len(d.halfedges))
      back == {k \in 2 .. Len(w) : w[k] = f}
  IN IF f = NIL \/ back = {} THEN << >>
     ELSE SubSeq(w, 1, (CHOOSE k \in back : \A j \in back : k <= j) - 1)

\* The cycle c read from its s-th half-edge on.
Rotate(c, s) == [t \in 1 .. Len(c) |-> c[((s + t - 2) % Len(c)) + 1]]

\* The vertex at which the half-edge e starts.
OriginOf(d, e) == d.vertices[d.halfedges[e + 1].origin + 1]

\* The segment from the origin of e to the origin of its next.
SegmentOf(d, e) == LineSegment(OriginOf(d, e).x, OriginOf(d, e).y, OriginOf(d, d.halfedges[e + 1].next).x, OriginOf(d, d.halfedges[e + 1].next).y)

\* The closed face c, read from its first half-edge with an origin in bbox,
\* or the empty list when no origin of c lies in bbox.
FromInside(d, c, bbox) ==
  LET inside == {s \in 1 .. Len(c) : InBox(OriginOf(d, c[s]), bbox)}
  IN IF inside = {} THEN << >>
     ELSE Rotate(c, CHOOSE s \in inside : \A t \in inside : s <= t)

\* In the walk c with the clipping results res the boundary leaves the
\* rectangle on the k-th segment and comes back on the m-th.
LeavesAndReenters(res, k, m) ==
  /\ k < m
  /\ res[k].kind = "Intersect" /\ res[m].kind = "Intersect"
  /\ \A t \in 1 .. k - 1 : res[t].kind = "Inside"
  /\ \A t \in k + 1 .. m - 1 : res[t].kind = "Outside"

\* The boundary that the face c should have after clipping: the entering
\* vertex, the part of c inside the rectangle up to the origin of the
\* exiting half-edge, the exit vertex, and the corners.
Rewritten(d, c, res, k, m, corners) == <<[x |-> res[m].x, y |-> res[m].y]>> \o [t \in 1 .. Len(c) - m |-> OriginOf(d, c[m + t])] \o [t \in 1 .. k |-> OriginOf(d, c[t])] \o <<[x |-> res[k].x, y |-> res[k].y]>> \o [t \in 1 .. Len(corners) |-> [x |-> corners[t][1], y |-> corners[t][2]]]

\* C37: when bound returns and a face that was closed leaves the rectangle
\* and later comes back, its new representative is a half-edge that bound
\* created, following next from it returns to it, and the walk visits the
\* entering vertex, the kept part of the old boundary, the exit vertex and
\* then the corners of corners_between(exiting side, entering side), the
\* sides being those on which the exit and the entering vertex lie, and no
\* corner when they lie on the same side; of the half-edges on the walk
\* other than the representative bound created one per corner and one more.
C37_LeavingFaceClosedAlongCorners ==
  [][(pc = "done" /\ pc' = "bounded") =>
       \A i \in 1 .. Len(dcel.faces) :
         \A c0 \in {CycleOf(dcel, dcel.faces[i])} :
           (c0 # << >> /\ \A t \in 1 .. Len(c0) : dcel.halfedges[c0[t] + 1].origin # NIL) =>
             \A c \in {FromInside(dcel, c0, clipBox')} :
               \A res \in {[t \in 1 .. Len(c) |-> bound(SegmentOf(dcel, c[t]), clipBox')]} :
                 \A k, m \in 1 .. Len(c) :
                   LeavesAndReenters(res, k, m) =>
                     \A after \in {CycleOf(dcel', dcel'.faces[i])} :
                       /\ after # << >>
                       /\ after[1] >= Len(dcel.halfedges)
                       /\ \E side1, side2 \in Sides :
                            /\ OnSide(<<res[k].x, res[k].y>>, side1, clipBox')
                            /\ OnSide(<<res[m].x, res[m].y>>, side2, clipBox')
                            /\ \A corners \in {corners_between(side1, side2, clipBox')} :
                                 /\ ClosedPolygon(dcel', after[1], Append(after, after[1])) = Rewritten(dcel, c, res, k, m, corners)
                                 /\ Cardinality({t \in 2 .. Len(after) : after[t] >= Len(dcel.halfedges)}) = Len(corners) + 1]_vars

(***************************************************************************)
(* A closed face that lies in the rectangle.                               *)
(***************************************************************************)
\* The face with the representative f is closed in d, all its half-edges
\* have an origin, and all those origins lie inside or on bbox.
ClosedInBox(d, f, bbox) ==
  \A c \in {CycleOf(d, f)} :
    /\ c # << >>
    /\ \A t \in 1 .. Len(c) :
         /\ d.halfedges[c[t] + 1].origin # NIL
         /\ InBox(OriginOf(d, c[t]), bbox)

\* C39: the turn of the loop of bound for a face that is closed and has all
\* its vertices inside or on the rectangle neither aborts nor marks the face
\* for removal and leaves the Dcel as it is, vertices, half-edges and face
\* slots; and a whole call of bound that returns leaves the slot of such a
\* face and origin, next and active of every half-edge on its walk as they
\* were.
C39_FaceInsideIsLeftAlone ==
  /\ [](pc = "done" =>
          \A box \in Boxes : \A i \in 1 .. Len(dcel.faces) :
            ClosedInBox(dcel, dcel.faces[i], box) =>
              \A r \in {bound_face(dcel, i - 1, box, bound_starting_edge(dcel, dcel.faces[i], dcel.faces[i], box, Len(dcel.halfedges)))} :
                r.panic = "" /\ ~ r.remove /\ r.d = dcel)
  /\ [][(pc = "done" /\ pc' = "bounded") =>
          \A i \in 1 .. Len(dcel.faces) :
            ClosedInBox(dcel, dcel.faces[i], clipBox') =>
              /\ dcel'.faces[i] = dcel.faces[i]
              /\ \A c \in {CycleOf(dcel, dcel.faces[i])} :
                   \A t \in 1 .. Len(c) : dcel'.halfedges[c[t] + 1] = dcel.halfedges[c[t] + 1]]_vars

\* bound has returned and has kept a closed face of the sweep that lies in
\* the rectangle, while it has removed another face.
C39_FaceInsideKept ==
  /\ pc = "bounded"
  /\ \E i, j \in 1 .. Len(dcel.faces) :
        /\ dcel.faces[j] = NIL
        /\ dcel.faces[i] # NIL
        /\ dcel.faces[i] < Cardinality(DOMAIN halfedges_by_site_pair)
        /\ ClosedInBox(dcel, dcel.faces[i], clipBox)
        /\ \A c \in {CycleOf(dcel, dcel.faces[i])} :
             Len(c) >= 3 /\ \A t \in 1 .. Len(c) : dcel.halfedges[c[t] + 1].active

\* C40: a call of bound on a Dcel with a NIL face slot returns and leaves
\* that slot NIL; and on the Dcel that bound has left, bound with the same
\* rectangle returns again and changes no face slot.
C40_BoundPassesNilSlots ==
  /\ [][(pc = "done" /\ pc' # "done") =>
          \A i \in 1 .. Len(dcel.faces) :
            dcel.faces[i] = NIL => (pc' = "bounded" /\ dcel'.faces[i] = NIL)]_vars
  /\ [](pc = "bounded" =>
          \A r \in {Dcel_bound(dcel, clipBox)} :
            r.panic = "" /\ r.d.faces = dcel.faces)
====
